---- MODULE Spec2Model ----
(***************************************************************************)
(* Intel 8080 emulator (Rust/emulator/src): the CPU state of struct        *)
(* Intel8080, every opcode of exec_opcode, the ROM loader, the run loop    *)
(* emulate and the binary's main.                                          *)
(*                                                                         *)
(* A Rust panic (index out of bounds, the `_ => panic!` arms of the        *)
(* register accessors, a trapped arithmetic overflow) ends the process.    *)
(* It is recorded in cpu.panic; a panicked process takes no further step.  *)
(* A value that could not be computed because computing it panicked is     *)
(* one of the negative numbers NoReg, NoMem, Overflow; every operation     *)
(* that receives such a value as an argument raises the panic, as Rust     *)
(* evaluates arguments before the call.                                    *)
(***************************************************************************)
EXTENDS Integers, Sequences, FiniteSets, TLC

VARIABLES
    cpu,              \* struct Intel8080 (registers, mem, halted, int) and the panic that ended it
    rom,              \* the input file: its leading bytes, its size, the byte filling the rest
    readable,         \* whether std::fs::read of the input file succeeds
    driver,           \* "main": the binary's main as written; "emulate": a caller of the pub fn emulate
    phase,            \* position of the driver
    overflow_checks,  \* build profile: TRUE traps integer overflow (debug), FALSE wraps (release)
    dis               \* the disassembler: the bytes read (byte_vec), its cursor (i), the lines printed (out)

vars == <<cpu, rom, readable, driver, phase, overflow_checks, dis>>

----------------------------------------------------------------------------
(* Integer widths and the values standing for a panic *)

U8 == 256
U16 == 65536

NoReg == 0 - 1      \* panic!("Unknown reg ...") / panic!("Unknown reg pair ...")
NoMem == 0 - 2      \* index out of bounds on self.mem[...]
Overflow == 0 - 3   \* attempt to add/subtract with overflow (overflow checks on)

PanicOf(v) ==
    IF v = NoReg THEN "unknown_reg"
    ELSE IF v = NoMem THEN "index_out_of_bounds"
    ELSE "overflow"

Raise(c, v) == [c EXCEPT !.panic = IF c.panic = "none" THEN PanicOf(v) ELSE c.panic]

\* u8 / u16 `+` and `-` of the build: trapped with overflow checks, wrapping without
checked_add(x, y, w) ==
    IF x < 0 THEN x ELSE IF y < 0 THEN y
    ELSE IF x + y >= w THEN (IF overflow_checks THEN Overflow ELSE (x + y) % w)
    ELSE x + y

checked_sub(x, y, w) ==
    IF x < 0 THEN x ELSE IF y < 0 THEN y
    ELSE IF x - y < 0 THEN (IF overflow_checks THEN Overflow ELSE (x - y) % w)
    ELSE x - y

\* bit i of the 8-bit two's-complement pattern of v
Bit(v, i) == ((v % 256) \div (2 ^ i)) % 2

\* x & y, x ^ y and x | y on u8, tabulated bit by bit
AndTable ==
    [x \in 0..255 |-> [y \in 0..255 |->
        Bit(x, 0) * Bit(y, 0) + 2 * Bit(x, 1) * Bit(y, 1)
      + 4 * Bit(x, 2) * Bit(y, 2) + 8 * Bit(x, 3) * Bit(y, 3)
      + 16 * Bit(x, 4) * Bit(y, 4) + 32 * Bit(x, 5) * Bit(y, 5)
      + 64 * Bit(x, 6) * Bit(y, 6) + 128 * Bit(x, 7) * Bit(y, 7)]]

XorTable ==
    [x \in 0..255 |-> [y \in 0..255 |-> x + y - 2 * AndTable[x][y]]]

OrTable ==
    [x \in 0..255 |-> [y \in 0..255 |-> x + y - AndTable[x][y]]]

BitAnd(x, y) == AndTable[x % 256][y % 256]

BitXor(x, y) == XorTable[x % 256][y % 256]

BitOr(x, y) == OrTable[x % 256][y % 256]

Shr(v, n) == v \div (2 ^ n)             \* u8 >> n
Shl(v, n) == (v * (2 ^ n)) % 256        \* u8 << n: the bits shifted out are lost

AsI8(v) == IF v > 127 THEN v - 256 ELSE v   \* `as i8`
BoolU8(b) == IF b THEN 1 ELSE 0             \* `bool as u8`

----------------------------------------------------------------------------
(* impl FlagRegister *)

\* check_parity without the last fold, val ^= val >> 1
check_parity_two_folds(val) ==
    LET v1 == BitXor(val, Shr(val, 4))
        v2 == BitXor(v1, Shr(v1, 2))
    IN BitAnd(v2, 1) = 0

\* check_parity answering for an odd number of 1 bits
check_parity_odd(val) ==
    LET v1 == BitXor(val, Shr(val, 4))
        v2 == BitXor(v1, Shr(v1, 2))
        v3 == BitXor(v2, Shr(v2, 1))
    IN BitAnd(v3, 1) = 1

check_parity(val) ==
    LET v1 == BitXor(val, Shr(val, 4))
        v2 == BitXor(v1, Shr(v1, 2))
        v3 == BitXor(v2, Shr(v2, 1))
    IN BitAnd(v3, 1) = 0

\* set_artihmetic_flags clearing the carry as well
set_artihmetic_flags_clears_carry(f, val) ==
    [f EXCEPT !.sign = (Shr(val, 7) = 1),
              !.zero = (val = 0),
              !.parity = check_parity(val),
              !.carry = FALSE]

set_artihmetic_flags(f, val) ==
    [f EXCEPT !.sign = (Shr(val, 7) = 1),
              !.zero = (val = 0),
              !.parity = check_parity(val)]

\* set_flags taking the auxiliary carry from bit 5
set_flags_aux_bit5(f, val) ==
    [f EXCEPT !.sign = (BitAnd(Shr(val, 7), 1) = 1),
              !.zero = (BitAnd(Shr(val, 6), 1) = 1),
              !.aux_carry = (BitAnd(Shr(val, 5), 1) = 1),
              !.parity = (BitAnd(Shr(val, 2), 1) = 1),
              !.carry = (BitAnd(val, 1) = 1)]

set_flags(f, val) ==
    [f EXCEPT !.sign = (BitAnd(Shr(val, 7), 1) = 1),
              !.zero = (BitAnd(Shr(val, 6), 1) = 1),
              !.aux_carry = (BitAnd(Shr(val, 4), 1) = 1),
              !.parity = (BitAnd(Shr(val, 2), 1) = 1),
              !.carry = (BitAnd(val, 1) = 1)]

\* get_flags without the constant 1 in bit 1
get_flags_bit1_clear(f) ==
    BitOr(Shl(BoolU8(f.sign), 7),
    BitOr(Shl(BoolU8(f.zero), 6),
    BitOr(Shl(BoolU8(f.aux_carry), 4),
    BitOr(Shl(BoolU8(f.parity), 2), BoolU8(f.carry)))))

get_flags(f) ==
    BitOr(Shl(BoolU8(f.sign), 7),
    BitOr(Shl(BoolU8(f.zero), 6),
    BitOr(Shl(0, 5),
    BitOr(Shl(BoolU8(f.aux_carry), 4),
    BitOr(Shl(0, 3),
    BitOr(Shl(BoolU8(f.parity), 2),
    BitOr(Shl(1, 1), BoolU8(f.carry))))))))

----------------------------------------------------------------------------
(* impl Registers *)

get_reg_pair(c, pair) ==
    CASE pair = "BC" -> c.registers.b * 256 + c.registers.c
      [] pair = "DE" -> c.registers.d * 256 + c.registers.e
      [] pair = "HL" -> c.registers.h * 256 + c.registers.l
      [] OTHER -> NoReg

set_reg_pair(c, reg_pair, val) ==
    IF val < 0 THEN Raise(c, val)
    ELSE CASE reg_pair = "BC" -> [c EXCEPT !.registers.b = Shr(val, 8), !.registers.c = val % 256]
           [] reg_pair = "DE" -> [c EXCEPT !.registers.d = Shr(val, 8), !.registers.e = val % 256]
           [] reg_pair = "HL" -> [c EXCEPT !.registers.h = Shr(val, 8), !.registers.l = val % 256]
           [] OTHER -> Raise(c, NoReg)

get_reg(c, reg) ==
    CASE reg = "B" -> c.registers.b
      [] reg = "C" -> c.registers.c
      [] reg = "D" -> c.registers.d
      [] reg = "E" -> c.registers.e
      [] reg = "H" -> c.registers.h
      [] reg = "L" -> c.registers.l
      [] reg = "A" -> c.registers.a
      [] OTHER -> NoReg

set_reg(c, reg_name, val) ==
    IF val < 0 THEN Raise(c, val)
    ELSE CASE reg_name = "B" -> [c EXCEPT !.registers.b = val]
           [] reg_name = "C" -> [c EXCEPT !.registers.c = val]
           [] reg_name = "D" -> [c EXCEPT !.registers.d = val]
           [] reg_name = "E" -> [c EXCEPT !.registers.e = val]
           [] reg_name = "H" -> [c EXCEPT !.registers.h = val]
           [] reg_name = "L" -> [c EXCEPT !.registers.l = val]
           [] reg_name = "A" -> [c EXCEPT !.registers.a = val]
           [] OTHER -> Raise(c, NoReg)

get_psw(c) == get_reg(c, "A") * 256 + get_flags(c.registers.f)

set_psw(c, val) ==
    IF val < 0 THEN Raise(c, val)
    ELSE LET c1 == set_reg(c, "A", Shr(val, 8))
         IN [c1 EXCEPT !.registers.f = set_flags(c1.registers.f, val % 256)]

----------------------------------------------------------------------------
(* impl Intel8080: construction, memory, stack *)

new ==
    [registers |-> [a |-> 0,
                    f |-> [sign |-> FALSE, zero |-> FALSE, aux_carry |-> FALSE,
                           parity |-> FALSE, carry |-> FALSE],
                    b |-> 0, c |-> 0, d |-> 0, e |-> 0, h |-> 0, l |-> 0,
                    sp |-> 0, pc |-> 0],
     mem |-> << >>,
     halted |-> FALSE,
     int |-> FALSE,
     panic |-> "none"]

\* self.mem[i] as a value: the Vec is indexed from 0, the sequence from 1
mem_at(c, i) ==
    IF i < 0 THEN i
    ELSE IF i < Len(c.mem) THEN c.mem[i + 1]
    ELSE NoMem

\* a write that extends the memory when i is past its end
mem_set_grows(c, i, val) ==
    IF i < 0 THEN Raise(c, i)
    ELSE IF val < 0 THEN Raise(c, val)
    ELSE IF i < Len(c.mem) THEN [c EXCEPT !.mem[i + 1] = val]
    ELSE [c EXCEPT !.mem = c.mem \o <<val>>]

\* self.mem[i] = val
mem_set(c, i, val) ==
    IF i < 0 THEN Raise(c, i)
    ELSE IF val < 0 THEN Raise(c, val)
    ELSE IF i < Len(c.mem) THEN [c EXCEPT !.mem[i + 1] = val]
    ELSE Raise(c, NoMem)

set_f(c, f) == [c EXCEPT !.registers.f = f]

set_sp(c, val) == IF val < 0 THEN Raise(c, val) ELSE [c EXCEPT !.registers.sp = val]

set_pc(c, val) == IF val < 0 THEN Raise(c, val) ELSE [c EXCEPT !.registers.pc = val]

advance_pc(c, val) == [c EXCEPT !.registers.pc = @ + val]

\* (hi as u16) << 8 | lo as u16, hi evaluated first
word_of(hi, lo) == IF hi < 0 THEN hi ELSE IF lo < 0 THEN lo ELSE hi * 256 + lo

get_word(c, pc) ==
    IF pc
    THEN word_of(mem_at(c, c.registers.pc + 2), mem_at(c, c.registers.pc + 1))
    ELSE word_of(mem_at(c, c.registers.sp + 1), mem_at(c, c.registers.sp))

\* the popped value is get_word(c, FALSE), read before SP moves
pop_stack(c) ==
    IF get_word(c, FALSE) < 0 THEN Raise(c, get_word(c, FALSE))
    ELSE [c EXCEPT !.registers.sp = (c.registers.sp + 2) % U16]

push_stack(c, val) ==
    IF val < 0 THEN Raise(c, val)
    ELSE LET c1 == [c EXCEPT !.registers.sp = (c.registers.sp - 2) % U16]
             c2 == mem_set(c1, checked_add(c1.registers.sp, 1, U16), Shr(val, 8))
         IN mem_set(c2, c2.registers.sp, val % 256)

----------------------------------------------------------------------------
(* impl Intel8080: the instruction helpers *)

\* NOP that clears the halted latch
nop_resumes(c) == advance_pc([c EXCEPT !.halted = FALSE], 1)

nop(c) == advance_pc(c, 1)

lxi(c, reg_pair) == advance_pc(set_reg_pair(c, reg_pair, get_word(c, TRUE)), 3)

\* STAX storing A in two consecutive bytes
stax_two_bytes(c, reg_pair) ==
    LET c1 == mem_set(c, get_reg_pair(c, reg_pair), c.registers.a)
    IN advance_pc(mem_set(c1, get_reg_pair(c, reg_pair) + 1, c.registers.a), 1)

stax(c, reg_pair) == advance_pc(mem_set(c, get_reg_pair(c, reg_pair), c.registers.a), 1)

inx(c, reg_pair) ==
    IF get_reg_pair(c, reg_pair) < 0 THEN Raise(c, get_reg_pair(c, reg_pair))
    ELSE advance_pc(set_reg_pair(c, reg_pair, (get_reg_pair(c, reg_pair) + 1) % U16), 1)

inr(c, reg_name) ==
    LET val == get_reg(c, reg_name)
        incremented_val == (val + 1) % U8
        c1 == set_reg(c, reg_name, incremented_val)
        f1 == set_artihmetic_flags(c1.registers.f, incremented_val)
        f2 == [f1 EXCEPT !.aux_carry = BitAnd(val, 15) + 1 > 15]
    IN IF val < 0 THEN Raise(c, val) ELSE advance_pc(set_f(c1, f2), 1)

dcr(c, reg_name) ==
    LET val == (get_reg(c, reg_name) - 1) % U8
        c1 == set_reg(c, reg_name, val)
        f1 == set_artihmetic_flags(c1.registers.f, val)
        f2 == [f1 EXCEPT !.aux_carry = BitAnd(val, 15) # 15]
    IN IF get_reg(c, reg_name) < 0 THEN Raise(c, get_reg(c, reg_name))
       ELSE advance_pc(set_f(c1, f2), 1)

mvi(c, reg_name) == advance_pc(set_reg(c, reg_name, mem_at(c, c.registers.pc + 1)), 2)

dad(c, reg_pair) ==
    LET val == get_reg_pair(c, reg_pair) + get_reg_pair(c, "HL")
        c1 == set_reg_pair(c, "HL", val % U16)
    IN IF get_reg_pair(c, reg_pair) < 0 THEN Raise(c, get_reg_pair(c, reg_pair))
       ELSE advance_pc([c1 EXCEPT !.registers.f.carry = val > 65535], 1)

ldax(c, reg_pair) ==
    advance_pc(set_reg(c, "A", mem_at(c, get_reg_pair(c, reg_pair))), 1)

dcx(c, reg_pair) ==
    advance_pc(set_reg_pair(c, reg_pair, checked_sub(get_reg_pair(c, reg_pair), 1, U16)), 1)

mov(c, dst, src) == advance_pc(set_reg(c, dst, get_reg(c, src)), 1)

mov_m(c, dst) == advance_pc(set_reg(c, dst, mem_at(c, get_reg_pair(c, "HL"))), 1)

mov_r(c, src) == advance_pc(mem_set(c, get_reg_pair(c, "HL"), get_reg(c, src)), 1)

add(c, val) ==
    LET reg_a == get_reg(c, "A")
        added_val == (reg_a + val) % U8
        c1 == set_reg(c, "A", added_val)
        f1 == set_artihmetic_flags(c1.registers.f, added_val)
        f2 == [f1 EXCEPT !.carry = reg_a + val > 255,
                         !.aux_carry = BitAnd(reg_a, 15) + BitAnd(val, 15) > 15]
    IN IF val < 0 THEN Raise(c, val) ELSE advance_pc(set_f(c1, f2), 1)

\* adc with the carry left out of the auxiliary carry
adc_aux_without_carry(c, val) ==
    LET reg_a == get_reg(c, "A")
        carry == BoolU8(c.registers.f.carry)
        added_val == (((reg_a + val) % U8) + carry) % U8
        c1 == set_reg(c, "A", added_val)
        f1 == set_artihmetic_flags(c1.registers.f, added_val)
        f2 == [f1 EXCEPT !.carry = reg_a + val + carry > 255,
                         !.aux_carry = BitAnd(reg_a, 15) + BitAnd(val, 15) > 15]
    IN IF val < 0 THEN Raise(c, val) ELSE advance_pc(set_f(c1, f2), 1)

adc(c, val) ==
    LET reg_a == get_reg(c, "A")
        carry == BoolU8(c.registers.f.carry)
        added_val == (((reg_a + val) % U8) + carry) % U8
        c1 == set_reg(c, "A", added_val)
        f1 == set_artihmetic_flags(c1.registers.f, added_val)
        f2 == [f1 EXCEPT !.carry = reg_a + val + carry > 255,
                         !.aux_carry = BitAnd(reg_a, 15) + BitAnd(val, 15) + carry > 15]
    IN IF val < 0 THEN Raise(c, val) ELSE advance_pc(set_f(c1, f2), 1)

sub(c, val) ==
    LET reg_a == get_reg(c, "A")
        subtracted_val == (reg_a - val) % U8
        c1 == set_reg(c, "A", subtracted_val)
        f1 == set_artihmetic_flags(c1.registers.f, subtracted_val)
        f2 == [f1 EXCEPT !.carry = reg_a < val,
                         !.aux_carry = BitAnd(AsI8(reg_a), 15) - BitAnd(AsI8(val), 15) >= 0]
    IN IF val < 0 THEN Raise(c, val) ELSE advance_pc(set_f(c1, f2), 1)

sbb(c, val) ==
    LET reg_a == get_reg(c, "A")
        carry == BoolU8(c.registers.f.carry)
        subtracted_val == (((reg_a - val) % U8) - carry) % U8
        c1 == set_reg(c, "A", subtracted_val)
        f1 == set_artihmetic_flags(c1.registers.f, subtracted_val)
        rhs == checked_add(val, carry, U8)
        f2 == [f1 EXCEPT !.carry = reg_a < rhs,
                         !.aux_carry = BitAnd(AsI8(reg_a), 15) - BitAnd(AsI8(val), 15)
                                         - AsI8(carry) >= 0]
    IN IF val < 0 THEN Raise(c, val)
       ELSE IF rhs < 0 THEN Raise(c, rhs)
       ELSE advance_pc(set_f(c1, f2), 1)

ana(c, val) ==
    LET reg_a == get_reg(c, "A")
        result == BitAnd(reg_a, val)
        f1 == [c.registers.f EXCEPT !.carry = FALSE]
        f2 == set_artihmetic_flags(f1, result)
        c1 == set_reg(set_f(c, f2), "A", result)
    IN IF val < 0 THEN Raise(c, val)
       ELSE advance_pc([c1 EXCEPT !.registers.f.aux_carry =
                                     (BitAnd(BitOr(reg_a, val), 8) = 1)], 1)

xra(c, val) ==
    LET reg_a == get_reg(c, "A")
        result == BitXor(reg_a, val)
        f1 == [c.registers.f EXCEPT !.carry = FALSE, !.aux_carry = FALSE]
        f2 == set_artihmetic_flags(f1, result)
    IN IF val < 0 THEN Raise(c, val)
       ELSE advance_pc(set_reg(set_f(c, f2), "A", result), 1)

ora(c, val) ==
    LET reg_a == get_reg(c, "A")
        result == BitOr(reg_a, val)
        f1 == [c.registers.f EXCEPT !.carry = FALSE, !.aux_carry = FALSE]
        f2 == set_artihmetic_flags(f1, result)
    IN IF val < 0 THEN Raise(c, val)
       ELSE advance_pc(set_reg(set_f(c, f2), "A", result), 1)

\* cmp that leaves the difference in A
cmp_without_restore(c, val) == advance_pc(sub(c, val), 1)

cmp(c, val) ==
    LET reg_a == get_reg(c, "A")
    IN advance_pc(set_reg(sub(c, val), "A", reg_a), 1)

ret(c, condition) ==
    IF condition
    THEN set_pc(pop_stack(c), get_word(c, FALSE))
    ELSE advance_pc(c, 1)

pop(c, reg_pair) ==
    LET val == get_word(c, FALSE)
        c1 == pop_stack(c)
    IN advance_pc(IF reg_pair = "PSW" THEN set_psw(c1, val)
                  ELSE set_reg_pair(c1, reg_pair, val), 1)

push(c, reg_pair) ==
    LET val == IF reg_pair = "PSW" THEN get_psw(c) ELSE get_reg_pair(c, reg_pair)
    IN advance_pc(push_stack(c, val), 1)

jmp_unconditional(c, condition) == set_pc(c, get_word(c, TRUE))

jmp(c, condition) ==
    IF condition
    THEN set_pc(c, get_word(c, TRUE))
    ELSE advance_pc(c, 3)

call(c, condition) ==
    IF condition
    THEN LET c1 == push_stack(c, c.registers.pc % U16)
         IN set_pc(c1, get_word(c1, TRUE))
    ELSE advance_pc(c, 3)

rst(c, val) ==
    LET c1 == push_stack(c, c.registers.pc % U16)
    IN set_pc(c1, mem_at(c1, 8 * val))

----------------------------------------------------------------------------
(* exec_opcode: the opcodes written out in the match arms *)

op_rlc(c) ==
    LET val == get_reg(c, "A")
        carry == (Shr(val, 7) = 1)
        shifted_val == BitOr(Shl(val, 1), BoolU8(carry))
    IN advance_pc(set_reg([c EXCEPT !.registers.f.carry = carry], "A", shifted_val), 1)

op_rrc(c) ==
    LET val == get_reg(c, "A")
        carry == (BitAnd(val, 1) = 1)
        shifted_val == BitOr(Shr(val, 1), Shl(BoolU8(carry), 7))
    IN advance_pc(set_reg([c EXCEPT !.registers.f.carry = carry], "A", shifted_val), 1)

op_ral(c) ==
    LET val == get_reg(c, "A")
        temp == BoolU8(c.registers.f.carry)
        shifted_val == BitOr(Shl(val, 1), temp)
    IN advance_pc(set_reg([c EXCEPT !.registers.f.carry = (Shr(val, 7) = 1)],
                          "A", shifted_val), 1)

op_rar(c) ==
    LET val == get_reg(c, "A")
        temp == BoolU8(c.registers.f.carry)
        shifted_val == BitOr(Shr(val, 1), Shl(temp, 7))
    IN advance_pc(set_reg([c EXCEPT !.registers.f.carry = (BitAnd(val, 1) = 1)],
                          "A", shifted_val), 1)

op_shld(c) ==
    LET h == get_reg(c, "H")
        l == get_reg(c, "L")
        addr == get_word(c, TRUE)
        c1 == mem_set(c, addr, l)
    IN advance_pc(mem_set(c1, checked_add(addr, 1, U16), h), 3)

\* DAA testing the high nibble A had before the low nibble was adjusted
op_daa_stale_upper(c) ==
    LET lower == BitAnd(get_reg(c, "A"), 15)
        c1 == IF lower > 9 \/ c.registers.f.aux_carry
              THEN set_reg([c EXCEPT !.registers.f.aux_carry = (lower + 6 > 15)],
                           "A", (get_reg(c, "A") + 6) % U8)
              ELSE c
        upper == Shr(get_reg(c, "A"), 4)
        c2 == IF upper > 9 \/ c1.registers.f.carry
              THEN set_reg([c1 EXCEPT !.registers.f.carry =
                                        IF upper + 6 > 15 THEN TRUE ELSE c1.registers.f.carry],
                           "A", (get_reg(c1, "A") + 96) % U8)
              ELSE c1
    IN advance_pc(set_f(c2, set_artihmetic_flags(c2.registers.f, get_reg(c2, "A"))), 1)

op_daa(c) ==
    LET lower == BitAnd(get_reg(c, "A"), 15)
        c1 == IF lower > 9 \/ c.registers.f.aux_carry
              THEN set_reg([c EXCEPT !.registers.f.aux_carry = (lower + 6 > 15)],
                           "A", (get_reg(c, "A") + 6) % U8)
              ELSE c
        upper == Shr(get_reg(c1, "A"), 4)
        c2 == IF upper > 9 \/ c1.registers.f.carry
              THEN set_reg([c1 EXCEPT !.registers.f.carry =
                                        IF upper + 6 > 15 THEN TRUE ELSE c1.registers.f.carry],
                           "A", (get_reg(c1, "A") + 96) % U8)
              ELSE c1
    IN advance_pc(set_f(c2, set_artihmetic_flags(c2.registers.f, get_reg(c2, "A"))), 1)

op_lhld(c) ==
    LET addr == get_word(c, TRUE)
        c1 == set_reg(c, "L", mem_at(c, addr))
    IN advance_pc(set_reg(c1, "H", mem_at(c1, checked_add(addr, 1, U16))), 3)

op_cma(c) == advance_pc(set_reg(c, "A", 255 - get_reg(c, "A")), 1)

op_lxi_sp(c) == advance_pc(set_sp(c, get_word(c, TRUE)), 3)

op_sta(c) == advance_pc(mem_set(c, get_word(c, TRUE), get_reg(c, "A")), 3)

op_inx_sp(c) == advance_pc(set_sp(c, (c.registers.sp + 1) % U16), 1)

op_inr_m(c) ==
    LET addr == get_reg_pair(c, "HL")
        val == mem_at(c, addr)
        incremented_val == (val + 1) % U8
        c1 == mem_set(c, addr, incremented_val)
        f1 == set_artihmetic_flags(c1.registers.f, incremented_val)
        f2 == [f1 EXCEPT !.aux_carry = BitAnd(val, 15) + 1 > 15]
    IN IF val < 0 THEN Raise(c, val) ELSE advance_pc(set_f(c1, f2), 1)

op_dcr_m(c) ==
    LET addr == get_reg_pair(c, "HL")
        val == (mem_at(c, addr) - 1) % U8
        c1 == mem_set(c, addr, val)
        f1 == set_artihmetic_flags(c1.registers.f, val)
        f2 == [f1 EXCEPT !.aux_carry = BitAnd(val, 15) # 15]
    IN IF mem_at(c, addr) < 0 THEN Raise(c, mem_at(c, addr))
       ELSE advance_pc(set_f(c1, f2), 1)

op_mvi_m(c) ==
    advance_pc(mem_set(c, get_reg_pair(c, "HL"), mem_at(c, c.registers.pc + 1)), 2)

op_stc(c) == advance_pc([c EXCEPT !.registers.f.carry = TRUE], 1)

op_dad_sp(c) ==
    LET val == c.registers.sp + get_reg_pair(c, "HL")
    IN advance_pc([c EXCEPT !.registers.sp = val % U16,
                            !.registers.f.carry = val > 65535], 1)

op_lda(c) == advance_pc(set_reg(c, "A", mem_at(c, get_word(c, TRUE))), 3)

op_dcx_sp(c) == advance_pc(set_sp(c, (c.registers.sp - 1) % U16), 1)

op_cmc(c) == advance_pc([c EXCEPT !.registers.f.carry = ~c.registers.f.carry], 1)

\* HLT that leaves PC on the HLT
op_hlt_stay(c) == [c EXCEPT !.halted = TRUE]

op_hlt(c) == advance_pc([c EXCEPT !.halted = TRUE], 1)

op_out(c) == advance_pc(c, 2)

op_in(c) == advance_pc(c, 2)

op_xthl(c) ==
    LET mem_val == get_word(c, FALSE)
        hl == get_reg_pair(c, "HL")
        c1 == set_reg_pair(c, "HL", mem_val)
        c2 == mem_set(c1, c1.registers.sp, hl % 256)
    IN advance_pc(mem_set(c2, checked_add(c2.registers.sp, 1, U16), Shr(hl, 8)), 1)

op_pchl(c) == advance_pc(set_pc(c, get_reg_pair(c, "HL")), 1)

op_xchg(c) ==
    LET hl == get_reg_pair(c, "HL")
        de == get_reg_pair(c, "DE")
    IN advance_pc(set_reg_pair(set_reg_pair(c, "HL", de), "DE", hl), 1)

op_di(c) == advance_pc([c EXCEPT !.int = FALSE], 1)

op_sphl(c) == advance_pc(set_sp(c, get_reg_pair(c, "HL")), 1)

\* EI that leaves the interrupt latch as it is
op_ei_latch_kept(c) == advance_pc(c, 1)

op_ei(c) == advance_pc([c EXCEPT !.int = TRUE], 1)

----------------------------------------------------------------------------
(* exec_opcode: match self.mem[self.registers.pc], one definition per row of *)
(* sixteen opcodes                                                           *)

\* 0x0x
exec_0x(c, opcode) ==
    CASE opcode = 0 -> nop(c)
      [] opcode = 1 -> lxi(c, "BC")
      [] opcode = 2 -> stax(c, "BC")
      [] opcode = 3 -> inx(c, "BC")
      [] opcode = 4 -> inr(c, "B")
      [] opcode = 5 -> dcr(c, "B")
      [] opcode = 6 -> mvi(c, "B")
      [] opcode = 7 -> op_rlc(c)
      [] opcode = 8 -> nop(c)
      [] opcode = 9 -> dad(c, "BC")
      [] opcode = 10 -> ldax(c, "BC")
      [] opcode = 11 -> dcx(c, "BC")
      [] opcode = 12 -> inr(c, "C")
      [] opcode = 13 -> dcr(c, "C")
      [] opcode = 14 -> mvi(c, "C")
      [] opcode = 15 -> op_rrc(c)

\* 0x1x
exec_1x(c, opcode) ==
    CASE opcode = 16 -> nop(c)
      [] opcode = 17 -> lxi(c, "DE")
      [] opcode = 18 -> stax(c, "DE")
      [] opcode = 19 -> inx(c, "DE")
      [] opcode = 20 -> inr(c, "D")
      [] opcode = 21 -> dcr(c, "D")
      [] opcode = 22 -> mvi(c, "D")
      [] opcode = 23 -> op_ral(c)
      [] opcode = 24 -> nop(c)
      [] opcode = 25 -> dad(c, "DE")
      [] opcode = 26 -> ldax(c, "DE")
      [] opcode = 27 -> dcx(c, "DE")
      [] opcode = 28 -> inr(c, "E")
      [] opcode = 29 -> dcr(c, "E")
      [] opcode = 30 -> mvi(c, "E")
      [] opcode = 31 -> op_rar(c)

\* 0x2x
exec_2x(c, opcode) ==
    CASE opcode = 32 -> nop(c)
      [] opcode = 33 -> lxi(c, "HL")
      [] opcode = 34 -> op_shld(c)
      [] opcode = 35 -> inx(c, "HL")
      [] opcode = 36 -> inr(c, "H")
      [] opcode = 37 -> dcr(c, "H")
      [] opcode = 38 -> mvi(c, "H")
      [] opcode = 39 -> op_daa(c)
      [] opcode = 40 -> nop(c)
      [] opcode = 41 -> dad(c, "HL")
      [] opcode = 42 -> op_lhld(c)
      [] opcode = 43 -> dcx(c, "HL")
      [] opcode = 44 -> inr(c, "L")
      [] opcode = 45 -> dcr(c, "L")
      [] opcode = 46 -> mvi(c, "L")
      [] opcode = 47 -> op_cma(c)

\* 0x3x
exec_3x(c, opcode) ==
    CASE opcode = 48 -> nop(c)
      [] opcode = 49 -> op_lxi_sp(c)
      [] opcode = 50 -> op_sta(c)
      [] opcode = 51 -> op_inx_sp(c)
      [] opcode = 52 -> op_inr_m(c)
      [] opcode = 53 -> op_dcr_m(c)
      [] opcode = 54 -> op_mvi_m(c)
      [] opcode = 55 -> op_stc(c)
      [] opcode = 56 -> nop(c)
      [] opcode = 57 -> op_dad_sp(c)
      [] opcode = 58 -> op_lda(c)
      [] opcode = 59 -> op_dcx_sp(c)
      [] opcode = 60 -> inr(c, "A")
      [] opcode = 61 -> dcr(c, "A")
      [] opcode = 62 -> mvi(c, "A")
      [] opcode = 63 -> op_cmc(c)

\* 0x4x
exec_4x(c, opcode) ==
    CASE opcode = 64 -> nop(c)
      [] opcode = 65 -> mov(c, "B", "C")
      [] opcode = 66 -> mov(c, "B", "D")
      [] opcode = 67 -> mov(c, "B", "E")
      [] opcode = 68 -> mov(c, "B", "H")
      [] opcode = 69 -> mov(c, "B", "L")
      [] opcode = 70 -> mov_m(c, "B")
      [] opcode = 71 -> mov(c, "B", "A")
      [] opcode = 72 -> mov(c, "C", "B")
      [] opcode = 73 -> nop(c)
      [] opcode = 74 -> mov(c, "C", "D")
      [] opcode = 75 -> mov(c, "C", "E")
      [] opcode = 76 -> mov(c, "C", "H")
      [] opcode = 77 -> mov(c, "C", "L")
      [] opcode = 78 -> mov_m(c, "C")
      [] opcode = 79 -> mov(c, "C", "A")

\* 0x5x
exec_5x(c, opcode) ==
    CASE opcode = 80 -> mov(c, "D", "B")
      [] opcode = 81 -> mov(c, "D", "C")
      [] opcode = 82 -> nop(c)
      [] opcode = 83 -> mov(c, "D", "E")
      [] opcode = 84 -> mov(c, "D", "H")
      [] opcode = 85 -> mov(c, "D", "L")
      [] opcode = 86 -> mov_m(c, "D")
      [] opcode = 87 -> mov(c, "D", "A")
      [] opcode = 88 -> mov(c, "E", "B")
      [] opcode = 89 -> mov(c, "E", "C")
      [] opcode = 90 -> mov(c, "E", "D")
      [] opcode = 91 -> nop(c)
      [] opcode = 92 -> mov(c, "E", "H")
      [] opcode = 93 -> mov(c, "E", "L")
      [] opcode = 94 -> mov_m(c, "E")
      [] opcode = 95 -> mov(c, "E", "A")

\* 0x6x
exec_6x(c, opcode) ==
    CASE opcode = 96 -> mov(c, "H", "B")
      [] opcode = 97 -> mov(c, "H", "C")
      [] opcode = 98 -> mov(c, "H", "D")
      [] opcode = 99 -> mov(c, "H", "E")
      [] opcode = 100 -> nop(c)
      [] opcode = 101 -> mov(c, "H", "L")
      [] opcode = 102 -> mov_m(c, "H")
      [] opcode = 103 -> mov(c, "H", "A")
      [] opcode = 104 -> mov(c, "L", "B")
      [] opcode = 105 -> mov(c, "L", "C")
      [] opcode = 106 -> mov(c, "L", "D")
      [] opcode = 107 -> mov(c, "L", "E")
      [] opcode = 108 -> mov(c, "L", "H")
      [] opcode = 109 -> nop(c)
      [] opcode = 110 -> mov_m(c, "L")
      [] opcode = 111 -> mov(c, "L", "A")

\* 0x7x
exec_7x(c, opcode) ==
    CASE opcode = 112 -> mov_r(c, "B")
      [] opcode = 113 -> mov_r(c, "C")
      [] opcode = 114 -> mov_r(c, "D")
      [] opcode = 115 -> mov_r(c, "E")
      [] opcode = 116 -> mov_r(c, "H")
      [] opcode = 117 -> mov_r(c, "L")
      [] opcode = 118 -> op_hlt(c)
      [] opcode = 119 -> mov_r(c, "A")
      [] opcode = 120 -> mov(c, "A", "B")
      [] opcode = 121 -> mov(c, "A", "C")
      [] opcode = 122 -> mov(c, "A", "D")
      [] opcode = 123 -> mov(c, "A", "E")
      [] opcode = 124 -> mov(c, "A", "H")
      [] opcode = 125 -> mov(c, "A", "L")
      [] opcode = 126 -> mov_m(c, "A")
      [] opcode = 127 -> nop(c)

\* 0x8x
exec_8x(c, opcode) ==
    CASE opcode = 128 -> add(c, get_reg(c, "B"))
      [] opcode = 129 -> add(c, get_reg(c, "C"))
      [] opcode = 130 -> add(c, get_reg(c, "D"))
      [] opcode = 131 -> add(c, get_reg(c, "E"))
      [] opcode = 132 -> add(c, get_reg(c, "H"))
      [] opcode = 133 -> add(c, get_reg(c, "L"))
      [] opcode = 134 -> add(c, mem_at(c, get_reg_pair(c, "HL")))
      [] opcode = 135 -> add(c, get_reg(c, "A"))
      [] opcode = 136 -> adc(c, get_reg(c, "B"))
      [] opcode = 137 -> adc(c, get_reg(c, "C"))
      [] opcode = 138 -> adc(c, get_reg(c, "D"))
      [] opcode = 139 -> adc(c, get_reg(c, "E"))
      [] opcode = 140 -> adc(c, get_reg(c, "H"))
      [] opcode = 141 -> adc(c, get_reg(c, "L"))
      [] opcode = 142 -> adc(c, mem_at(c, get_reg_pair(c, "HL")))
      [] opcode = 143 -> adc(c, get_reg(c, "A"))

\* 0x9x
exec_9x(c, opcode) ==
    CASE opcode = 144 -> sub(c, get_reg(c, "B"))
      [] opcode = 145 -> sub(c, get_reg(c, "C"))
      [] opcode = 146 -> sub(c, get_reg(c, "D"))
      [] opcode = 147 -> sub(c, get_reg(c, "E"))
      [] opcode = 148 -> sub(c, get_reg(c, "H"))
      [] opcode = 149 -> sub(c, get_reg(c, "L"))
      [] opcode = 150 -> sub(c, mem_at(c, get_reg_pair(c, "HL")))
      [] opcode = 151 -> sub(c, get_reg(c, "A"))
      [] opcode = 152 -> sbb(c, get_reg(c, "B"))
      [] opcode = 153 -> sbb(c, get_reg(c, "C"))
      [] opcode = 154 -> sbb(c, get_reg(c, "D"))
      [] opcode = 155 -> sbb(c, get_reg(c, "E"))
      [] opcode = 156 -> sbb(c, get_reg(c, "H"))
      [] opcode = 157 -> sbb(c, get_reg(c, "L"))
      [] opcode = 158 -> sbb(c, mem_at(c, get_reg_pair(c, "HL")))
      [] opcode = 159 -> sbb(c, get_reg(c, "A"))

\* 0xax
exec_ax(c, opcode) ==
    CASE opcode = 160 -> ana(c, get_reg(c, "B"))
      [] opcode = 161 -> ana(c, get_reg(c, "C"))
      [] opcode = 162 -> ana(c, get_reg(c, "D"))
      [] opcode = 163 -> ana(c, get_reg(c, "E"))
      [] opcode = 164 -> ana(c, get_reg(c, "F"))
      [] opcode = 165 -> ana(c, get_reg(c, "L"))
      [] opcode = 166 -> ana(c, mem_at(c, get_reg_pair(c, "HL")))
      [] opcode = 167 -> ana(c, get_reg(c, "A"))
      [] opcode = 168 -> xra(c, get_reg(c, "B"))
      [] opcode = 169 -> xra(c, get_reg(c, "C"))
      [] opcode = 170 -> xra(c, get_reg(c, "D"))
      [] opcode = 171 -> xra(c, get_reg(c, "E"))
      [] opcode = 172 -> xra(c, get_reg(c, "H"))
      [] opcode = 173 -> xra(c, get_reg(c, "L"))
      [] opcode = 174 -> xra(c, mem_at(c, get_reg_pair(c, "HL")))
      [] opcode = 175 -> xra(c, get_reg(c, "A"))

\* 0xbx
exec_bx(c, opcode) ==
    CASE opcode = 176 -> ora(c, get_reg(c, "B"))
      [] opcode = 177 -> ora(c, get_reg(c, "C"))
      [] opcode = 178 -> ora(c, get_reg(c, "D"))
      [] opcode = 179 -> ora(c, get_reg(c, "E"))
      [] opcode = 180 -> ora(c, get_reg(c, "H"))
      [] opcode = 181 -> ora(c, get_reg(c, "L"))
      [] opcode = 182 -> ora(c, mem_at(c, get_reg_pair(c, "HL")))
      [] opcode = 183 -> ora(c, get_reg(c, "A"))
      [] opcode = 184 -> cmp(c, get_reg(c, "B"))
      [] opcode = 185 -> cmp(c, get_reg(c, "C"))
      [] opcode = 186 -> cmp(c, get_reg(c, "D"))
      [] opcode = 187 -> cmp(c, get_reg(c, "E"))
      [] opcode = 188 -> cmp(c, get_reg(c, "H"))
      [] opcode = 189 -> cmp(c, get_reg(c, "L"))
      [] opcode = 190 -> cmp(c, mem_at(c, get_reg_pair(c, "HL")))
      [] opcode = 191 -> cmp(c, get_reg(c, "A"))

\* 0xcx
exec_cx(c, opcode) ==
    CASE opcode = 192 -> ret(c, ~c.registers.f.zero)
      [] opcode = 193 -> pop(c, "BC")
      [] opcode = 194 -> jmp(c, ~c.registers.f.zero)
      [] opcode = 195 -> jmp(c, TRUE)
      [] opcode = 196 -> call(c, ~c.registers.f.zero)
      [] opcode = 197 -> push(c, "BC")
      [] opcode = 198 -> advance_pc(add(c, mem_at(c, c.registers.pc + 1)), 1)
      [] opcode = 199 -> rst(c, 0)
      [] opcode = 200 -> ret(c, c.registers.f.zero)
      [] opcode = 201 -> ret(c, TRUE)
      [] opcode = 202 -> jmp(c, c.registers.f.zero)
      [] opcode = 203 -> jmp(c, TRUE)
      [] opcode = 204 -> call(c, c.registers.f.zero)
      [] opcode = 205 -> call(c, TRUE)
      [] opcode = 206 -> advance_pc(adc(c, mem_at(c, c.registers.pc + 1)), 1)
      [] opcode = 207 -> rst(c, 1)

\* 0xdx
exec_dx(c, opcode) ==
    CASE opcode = 208 -> ret(c, ~c.registers.f.carry)
      [] opcode = 209 -> pop(c, "DE")
      [] opcode = 210 -> jmp(c, ~c.registers.f.carry)
      [] opcode = 211 -> op_out(c)
      [] opcode = 212 -> call(c, ~c.registers.f.carry)
      [] opcode = 213 -> push(c, "DE")
      [] opcode = 214 -> advance_pc(sub(c, mem_at(c, c.registers.pc + 1)), 1)
      [] opcode = 215 -> rst(c, 2)
      [] opcode = 216 -> ret(c, c.registers.f.carry)
      [] opcode = 217 -> ret(c, TRUE)
      [] opcode = 218 -> jmp(c, c.registers.f.carry)
      [] opcode = 219 -> op_in(c)
      [] opcode = 220 -> call(c, c.registers.f.carry)
      [] opcode = 221 -> call(c, TRUE)
      [] opcode = 222 -> advance_pc(sbb(c, mem_at(c, c.registers.pc + 1)), 1)
      [] opcode = 223 -> rst(c, 3)

\* 0xex
exec_ex(c, opcode) ==
    CASE opcode = 224 -> ret(c, ~c.registers.f.parity)
      [] opcode = 225 -> pop(c, "HL")
      [] opcode = 226 -> jmp(c, ~c.registers.f.parity)
      [] opcode = 227 -> op_xthl(c)
      [] opcode = 228 -> call(c, ~c.registers.f.parity)
      [] opcode = 229 -> push(c, "HL")
      [] opcode = 230 -> advance_pc(ana(c, mem_at(c, c.registers.pc + 1)), 1)
      [] opcode = 231 -> rst(c, 4)
      [] opcode = 232 -> ret(c, c.registers.f.parity)
      [] opcode = 233 -> op_pchl(c)
      [] opcode = 234 -> jmp(c, c.registers.f.parity)
      [] opcode = 235 -> op_xchg(c)
      [] opcode = 236 -> call(c, c.registers.f.parity)
      [] opcode = 237 -> call(c, TRUE)
      [] opcode = 238 -> advance_pc(xra(c, mem_at(c, c.registers.pc + 1)), 1)
      [] opcode = 239 -> rst(c, 5)

\* 0xfx
exec_fx(c, opcode) ==
    CASE opcode = 240 -> ret(c, ~c.registers.f.sign)
      [] opcode = 241 -> pop(c, "PSW")
      [] opcode = 242 -> jmp(c, ~c.registers.f.sign)
      [] opcode = 243 -> op_di(c)
      [] opcode = 244 -> call(c, ~c.registers.f.sign)
      [] opcode = 245 -> push(c, "PSW")
      [] opcode = 246 -> advance_pc(ora(c, mem_at(c, c.registers.pc + 1)), 1)
      [] opcode = 247 -> rst(c, 6)
      [] opcode = 248 -> ret(c, c.registers.f.sign)
      [] opcode = 249 -> op_sphl(c)
      [] opcode = 250 -> jmp(c, c.registers.f.sign)
      [] opcode = 251 -> op_ei(c)
      [] opcode = 252 -> call(c, c.registers.f.sign)
      [] opcode = 253 -> call(c, TRUE)
      [] opcode = 254 -> advance_pc(cmp(c, mem_at(c, c.registers.pc + 1)), 1)
      [] opcode = 255 -> rst(c, 7)

dispatch(c, opcode) ==
    CASE opcode < 16 -> exec_0x(c, opcode)
      [] opcode < 32 -> exec_1x(c, opcode)
      [] opcode < 48 -> exec_2x(c, opcode)
      [] opcode < 64 -> exec_3x(c, opcode)
      [] opcode < 80 -> exec_4x(c, opcode)
      [] opcode < 96 -> exec_5x(c, opcode)
      [] opcode < 112 -> exec_6x(c, opcode)
      [] opcode < 128 -> exec_7x(c, opcode)
      [] opcode < 144 -> exec_8x(c, opcode)
      [] opcode < 160 -> exec_9x(c, opcode)
      [] opcode < 176 -> exec_ax(c, opcode)
      [] opcode < 192 -> exec_bx(c, opcode)
      [] opcode < 208 -> exec_cx(c, opcode)
      [] opcode < 224 -> exec_dx(c, opcode)
      [] opcode < 240 -> exec_ex(c, opcode)
      [] OTHER -> exec_fx(c, opcode)

\* A panic ends the process: the record keeps the state the instruction
\* started in (c), with the panic that ended it; otherwise the result r stands.
Unwind(c, r) == IF r.panic # "none" THEN [c EXCEPT !.panic = r.panic] ELSE r

exec_opcode_jmp_alias_unknown(c) ==
    LET opcode == mem_at(c, c.registers.pc)
    IN Unwind(c, IF opcode < 0 THEN Raise(c, opcode)
                 ELSE IF opcode = 203 THEN Raise(c, NoReg)
                 ELSE dispatch(c, opcode))

\* One instruction: the opcode at pc is fetched and its arm runs.
exec_opcode(c) ==
    LET opcode == mem_at(c, c.registers.pc)
    IN Unwind(c, IF opcode < 0 THEN Raise(c, opcode) ELSE dispatch(c, opcode))

----------------------------------------------------------------------------
(* impl Intel8080: the public operations *)

\* read(input_file)? pushes every byte of the file onto self.mem
read_rom_to_mem(c, bytes) == [c EXCEPT !.mem = c.mem \o bytes]

\* the state change of test(): set_reg("A", 0x4); the rest prints
test(c) == set_reg(c, "A", 4)

----------------------------------------------------------------------------
(* ROM images *)

MaxPad == 2          \* small ROMs are also loaded followed by up to MaxPad zero bytes

\* An input file of `size` bytes: prog, then `fill` bytes up to size
File(prog, size, fill) == [prog |-> prog, size |-> size, fill |-> fill]

\* the bytes std::fs::read returns for the file
RomBytes(r) == [i \in 1..r.size |-> IF i <= Len(r.prog) THEN r.prog[i] ELSE r.fill]

\* prog followed by HLT bytes up to the full 64 KiB: a jump past prog halts
FullRom(prog) == File(prog, U16, 118)

RomAdd == <<62, 66, 6, 16, 128, 118>>                     \* 3E 42 06 10 80 76
RomAdi == <<62, 255, 198, 1, 118>>                        \* 3E FF C6 01 76
RomLxi == <<33, 52, 18, 124, 181, 118>>                   \* 21 34 12 7C B5 76
RomCall == <<49, 0, 32, 205, 8, 0, 118, 0, 62, 7, 201>>   \* 31 00 20 CD 08 00 76 00 3E 07 C9
RomDaa == <<62, 155, 39, 118>>                            \* 3E 9B 27 76
RomPchl == <<33, 255, 255, 233>>                          \* 21 FF FF E9: LXI H,0xFFFF; PCHL
RomAnaH == <<38, 15, 62, 255, 164, 118>>                  \* 26 0F 3E FF A4 76: ANA H
RomNop == <<0>>                                           \* 00: runs off the end of the image

ScenarioRoms == {RomAdd, RomAdi, RomLxi, RomCall, RomDaa, RomPchl, RomAnaH, RomNop, << >>}

\* LXI SP,6; POP PSW; PUSH PSW; HLT; the popped word: flag byte fb, A = 0xAA
RomPsw(fb) == <<49, 6, 0, 241, 245, 118, fb, 170>>

\* LXI SP,s; LXI B,0x1234; LXI D,0x5678; LXI H,0x9ABC; body; HLT
StackProg(s, body) ==
    <<49, s % 256, s \div 256, 1, 52, 18, 17, 120, 86, 33, 188, 154>> \o body \o <<118>>

StackBodies ==
    { <<197, 193>>,        \* C5 C1: PUSH B; POP B
      <<213, 209>>,        \* D5 D1: PUSH D; POP D
      <<229, 225>>,        \* E5 E1: PUSH H; POP H
      <<245, 241>>,        \* F5 F1: PUSH PSW; POP PSW
      <<55, 245, 241>>,    \* 37 F5 F1: STC; PUSH PSW; POP PSW
      <<227>>,             \* E3: XTHL
      <<205, 15, 0>>,      \* CD 0F 00: CALL 0x000F (the HLT that follows)
      <<201>>,             \* C9: RET
      <<255>>,             \* FF: RST 7
      <<193>> }            \* C1: POP B

StackPointers == {0, 1, 2, 8192, 65534, 65535}

\* LXI H,0x1234; SHLD a; LXI H,0; LHLD a; HLT
RomShld(a) == <<33, 52, 18, 34, a % 256, a \div 256, 33, 0, 0, 42, a % 256, a \div 256, 118>>

StackRoms ==
    { FullRom(StackProg(s, body)) : s \in StackPointers, body \in StackBodies }
    \cup { FullRom(p) : p \in {RomCall, RomPchl, RomAnaH} }
    \cup { FullRom(RomShld(a)) : a \in {16, 8192, 65534, 65535} }

SmallRoms ==
    { File(p, Len(p) + k, 0) : p \in ScenarioRoms, k \in 0..MaxPad }
    \cup { File(RomPsw(fb), 8, 0) : fb \in 0..255 }

Roms == SmallRoms \cup StackRoms

----------------------------------------------------------------------------
(* main (Rust/emulator/src/main.rs) and the run loop *)

\* the state of the disassembler before it has read its input file
DisIdle == [byte_vec |-> <<>>, i |-> 0, out |-> <<>>]

Init ==
    /\ cpu = new
    /\ rom \in Roms
    /\ readable \in BOOLEAN
    /\ driver \in {"main", "emulate"}
    /\ (rom.size = U16 => readable /\ driver = "emulate")
    /\ phase = "start"
    /\ overflow_checks \in BOOLEAN
    /\ dis = DisIdle

\* cpu.read_rom_to_mem(path)?  -- Ok
ReadRomToMem ==
    /\ phase = "start"
    /\ readable
    /\ cpu' = read_rom_to_mem(cpu, RomBytes(rom))
    /\ phase' = "loaded"
    /\ UNCHANGED <<rom, readable, driver, overflow_checks, dis>>

\* cpu.read_rom_to_mem(path)?  -- Err(FileCantOpen), returned by `?`
ReadRomFail ==
    /\ phase = "start"
    /\ ~readable
    /\ phase' = "exit_err"
    /\ UNCHANGED <<cpu, rom, readable, driver, overflow_checks, dis>>

\* main: cpu.test()
Test ==
    /\ driver = "main"
    /\ phase = "loaded"
    /\ cpu' = test(cpu)
    /\ phase' = "tested"
    /\ UNCHANGED <<rom, readable, driver, overflow_checks, dis>>

\* main: Ok(())
MainExit ==
    /\ driver = "main"
    /\ phase = "tested"
    /\ phase' = "exit_ok"
    /\ UNCHANGED <<cpu, rom, readable, driver, overflow_checks, dis>>

\* emulate: one iteration of `while !self.halted { self.exec_opcode() }`
EmulateStep ==
    /\ driver = "emulate"
    /\ phase \in {"loaded", "running"}
    /\ cpu.panic = "none"
    /\ ~cpu.halted
    /\ cpu' = exec_opcode(cpu)
    /\ phase' = "running"
    /\ UNCHANGED <<rom, readable, driver, overflow_checks, dis>>

\* emulate: the loop condition fails, emulate returns
EmulateReturn ==
    /\ driver = "emulate"
    /\ phase \in {"loaded", "running"}
    /\ cpu.panic = "none"
    /\ cpu.halted
    /\ phase' = "returned"
    /\ UNCHANGED <<cpu, rom, readable, driver, overflow_checks, dis>>

Next ==
    \/ ReadRomToMem
    \/ ReadRomFail
    \/ Test
    \/ MainExit
    \/ EmulateStep
    \/ EmulateReturn

Spec == Init /\ [][Next]_vars

\* the process runs on until it exits or panics
FairSpec == Spec /\ WF_vars(Next)

----------------------------------------------------------------------------
(* The add family on every pair of operands.  The start states are the     *)
(* states emulate is in after the prelude MVI A,x; MVI r,y; STC or NOP of   *)
(* the image it loaded, about to execute the add instruction that follows.  *)

SampleBytes == {0, 1, 15, 16, 127, 128, 240, 255}

\* MVI r,d8
MviOf(r) ==
    CASE r = "B" -> 6 [] r = "C" -> 14 [] r = "D" -> 22
      [] r = "E" -> 30 [] r = "H" -> 38 [] r = "L" -> 46

\* the source field of ADD r (0x80 + n) and ADC r (0x88 + n)
SrcOf(r) ==
    CASE r = "B" -> 0 [] r = "C" -> 1 [] r = "D" -> 2 [] r = "E" -> 3
      [] r = "H" -> 4 [] r = "L" -> 5 [] r = "M" -> 6 [] r = "A" -> 7

\* the instructions of the family: the operand's place, the opcode, and
\* whether every value of A is tried or the sample
AddCases ==
    { [src |-> "B", opcode |-> op, all |-> TRUE] : op \in {128, 136} }
    \cup { [src |-> "imm", opcode |-> op, all |-> TRUE] : op \in {198, 206} }
    \cup { [src |-> r, opcode |-> base + SrcOf(r), all |-> FALSE] :
             r \in {"C", "D", "E", "H", "L", "M", "A"}, base \in {128, 136} }

\* the register the prelude's second MVI loads, and with what
LoadedReg(case) ==
    IF case.src = "M" THEN "L" ELSE IF case.src \in {"imm", "A"} THEN "B" ELSE case.src

LoadedVal(case, y) == IF case.src = "M" THEN 7 ELSE y

\* the image: MVI A,x; MVI r,v; STC or NOP; the instruction; HLT (; y for M)
AddImage(x, case, y, k) ==
    <<62, x, MviOf(LoadedReg(case)), LoadedVal(case, y), IF k THEN 55 ELSE 0>>
    \o (IF case.src = "imm" THEN <<case.opcode, y>> ELSE <<case.opcode>>)
    \o (IF case.src = "M" THEN <<118, y>> ELSE <<118>>)

\* the state after the prelude has run
AfterPrelude(x, case, y, k) ==
    LET c0 == read_rom_to_mem(new, AddImage(x, case, y, k))
        c1 == set_reg(set_reg(c0, "A", x), LoadedReg(case), LoadedVal(case, y))
    IN [c1 EXCEPT !.registers.f.carry = k, !.registers.pc = 5]

InitAdd ==
    \E x \in 0..255, y \in SampleBytes, k \in BOOLEAN, case \in AddCases :
        /\ case.all \/ x \in SampleBytes
        /\ cpu = AfterPrelude(x, case, y, k)
        /\ rom = File(AddImage(x, case, y, k), Len(cpu.mem), 0)
        /\ readable = TRUE
        /\ driver = "emulate"
        /\ phase = "running"
        /\ overflow_checks \in BOOLEAN
        /\ dis = DisIdle

NextAdd == EmulateStep \/ EmulateReturn

SpecAdd == InitAdd /\ [][NextAdd]_vars

----------------------------------------------------------------------------
(* Single instructions run by emulate from a loaded image: the compare      *)
(* family, DAA on every accumulator, the 16-bit increments, IN and OUT,     *)
(* every opcode once, and an input file one byte longer than 64 KiB.        *)

\* CMP r (0xB8 + n) and CPI (0xFE), each with the register its operand is in
CmpCases ==
    { [src |-> r, opcode |-> 184 + SrcOf(r), all |-> FALSE] :
        r \in {"B", "C", "D", "E", "H", "L", "M", "A"} }
    \cup { [src |-> "imm", opcode |-> 254, all |-> FALSE] }

\* MVI A,x; MVI r,y; STC or NOP; CMP r or CPI y; HLT
CmpRoms ==
    { AddImage(x, case, y, k) :
        x \in SampleBytes, y \in SampleBytes, k \in BOOLEAN, case \in CmpCases }

\* LXI SP,6; POP PSW; DAA; HLT; the popped word: flag byte fb, A = a
RomDaaPsw(fb, a) == <<49, 6, 0, 241, 39, 118, fb, a>>

DaaRoms == { RomDaaPsw(fb, a) : fb \in {2, 3, 18, 19}, a \in 0..255 }

\* LXI rp,v; INX rp or DCX rp; HLT for rp = BC, DE, HL, SP and v at the ends
IncRoms ==
    { <<lxi_op, v % 256, v \div 256, lxi_op + d, 118>> :
        lxi_op \in {1, 17, 33, 49}, v \in {0, 1, 255, 256, 65534, 65535}, d \in {2, 10} }
    \cup { <<55, 11, 118>>, <<55, 3, 118>> }     \* STC; DCX B / INX B with BC = 0

\* MVI A,0x42; IN 1 or OUT 1; HLT
PortRoms == { <<62, 66, 219, 1, 118>>, <<62, 66, 211, 1, 118>> }

\* LXI SP,10; then every opcode once, with two operand bytes, over a field of HLT
OneOpRoms == { <<49, 10, 0, op, 5, 0, 118, 118, 118, 118>> : op \in 0..255 }

\* SUB r/M, SBB r/M, ANA r/M (0x90, 0x98, 0xA0 + n) and SUI, SBI, ANI
AluCases ==
    { [src |-> r, opcode |-> base + SrcOf(r), all |-> FALSE] :
        r \in {"B", "C", "D", "E", "H", "L", "M", "A"}, base \in {144, 152, 160} }
    \cup { [src |-> "imm", opcode |-> op, all |-> FALSE] : op \in {214, 222, 230} }

\* MVI A,x; MVI r,y; STC or NOP; the instruction; HLT
AluRoms ==
    { AddImage(x, case, y, k) :
        x \in SampleBytes, y \in SampleBytes, k \in BOOLEAN, case \in AluCases }

\* LXI rp,v; LXI H,w; DAD rp; HLT for rp = BC, DE, HL, SP (LXI 0x01 + 16n, DAD 0x09 + 16n)
DadRoms ==
    { <<lxi_op, v % 256, v \div 256, 33, w % 256, w \div 256, lxi_op + 8, 118>> :
        lxi_op \in {1, 17, 33, 49}, v \in {0, 1, 255, 32768, 65535}, w \in {0, 1, 255, 32768, 65535} }

\* LXI SP,8; POP PSW; every opcode once, with operand bytes 0C 00 (a branch
\* target of 0x000C); HLT; the popped word: flag byte fb (no flag, each of
\* carry, parity, zero, sign alone, all five), A = 0xAA; the return address
\* 0x000C; HLT
FlagRoms ==
    { <<49, 8, 0, 241, op, 12, 0, 118, fb, 170, 12, 0, 118>> :
        op \in 0..255, fb \in {2, 3, 6, 66, 130, 215} }

\* LXI SP,6; CALL 0x0008; HLT ...: the stack the CALL pushes onto is its own
\* operand bytes (SP - 2 = 4 = the address of the operand)
RomCallOverStack == <<49, 6, 0, 205, 8, 0, 118, 118, 118, 118>>

\* LXI SP,10; EI; then every opcode once, with operand bytes 05 00; HLT
EiRoms == { <<49, 10, 0, 251, op, 5, 0, 118, 118, 118>> : op \in 0..255 }

\* an input file of 65537 bytes
RomOversize == File(RomNop, U16 + 1, 118)

OpRoms ==
    { File(p, Len(p), 0) : p \in CmpRoms \cup DaaRoms \cup IncRoms \cup PortRoms \cup OneOpRoms
                                \cup AluRoms \cup DadRoms \cup FlagRoms \cup {RomCallOverStack} \cup EiRoms }
    \cup {RomOversize}

InitOps ==
    /\ cpu = new
    /\ rom \in OpRoms
    /\ readable = TRUE
    /\ driver = "emulate"
    /\ phase = "start"
    /\ overflow_checks \in BOOLEAN
    /\ dis = DisIdle

NextOps == ReadRomToMem \/ EmulateStep \/ EmulateReturn

SpecOps == InitOps /\ [][NextOps]_vars

----------------------------------------------------------------------------
(* The disassembler (Rust/disassembler/src/disassembler.rs)                *)

Hex2_low_nibble_first(b) == <<b % 16, b \div 16>>

\* the two upper-case hex digits "{:#04X}" (after its 0x) and "{:02X}" print for a byte
Hex2(b) == <<b \div 16, b % 16>>

\* the arms of match_opcode by opcode: the mnemonic, the operands printed
\* ("d8": #0xNN from bytes[pc+1]; "d16": #0xHHLL and "a16": 0xHHLL from
\* bytes[pc+2], bytes[pc+1]) and the offset returned
OpcodeTable == <<
    [name |-> "NOP", args |-> "none", opcode_offset |-> 1],   \* 0x00
    [name |-> "LXI B", args |-> "d16", opcode_offset |-> 3],   \* 0x01
    [name |-> "STAX B", args |-> "none", opcode_offset |-> 1],   \* 0x02
    [name |-> "INX B", args |-> "none", opcode_offset |-> 1],   \* 0x03
    [name |-> "INR B", args |-> "none", opcode_offset |-> 1],   \* 0x04
    [name |-> "DCR B", args |-> "none", opcode_offset |-> 1],   \* 0x05
    [name |-> "MVI B", args |-> "d8", opcode_offset |-> 2],   \* 0x06
    [name |-> "RLC", args |-> "none", opcode_offset |-> 1],   \* 0x07
    [name |-> "NOP*", args |-> "none", opcode_offset |-> 1],   \* 0x08
    [name |-> "DAD B", args |-> "none", opcode_offset |-> 1],   \* 0x09
    [name |-> "LDAX B", args |-> "none", opcode_offset |-> 1],   \* 0x0A
    [name |-> "DCX B", args |-> "none", opcode_offset |-> 1],   \* 0x0B
    [name |-> "INR C", args |-> "none", opcode_offset |-> 1],   \* 0x0C
    [name |-> "DCR C", args |-> "none", opcode_offset |-> 1],   \* 0x0D
    [name |-> "MVI C", args |-> "d8", opcode_offset |-> 2],   \* 0x0E
    [name |-> "RRC", args |-> "none", opcode_offset |-> 1],   \* 0x0F
    [name |-> "NOP*", args |-> "none", opcode_offset |-> 1],   \* 0x10
    [name |-> "LXI D", args |-> "d16", opcode_offset |-> 3],   \* 0x11
    [name |-> "STAX D", args |-> "none", opcode_offset |-> 1],   \* 0x12
    [name |-> "INX D", args |-> "none", opcode_offset |-> 1],   \* 0x13
    [name |-> "INR D", args |-> "none", opcode_offset |-> 1],   \* 0x14
    [name |-> "DCR D", args |-> "none", opcode_offset |-> 1],   \* 0x15
    [name |-> "MVI D", args |-> "d8", opcode_offset |-> 2],   \* 0x16
    [name |-> "RAL", args |-> "none", opcode_offset |-> 1],   \* 0x17
    [name |-> "NOP*", args |-> "none", opcode_offset |-> 1],   \* 0x18
    [name |-> "DAD D", args |-> "none", opcode_offset |-> 1],   \* 0x19
    [name |-> "LDAX D", args |-> "none", opcode_offset |-> 1],   \* 0x1A
    [name |-> "DCX D", args |-> "none", opcode_offset |-> 1],   \* 0x1B
    [name |-> "INR E", args |-> "none", opcode_offset |-> 1],   \* 0x1C
    [name |-> "DCR E", args |-> "none", opcode_offset |-> 1],   \* 0x1D
    [name |-> "MVI E", args |-> "d8", opcode_offset |-> 2],   \* 0x1E
    [name |-> "RAR", args |-> "none", opcode_offset |-> 1],   \* 0x1F
    [name |-> "NOP*", args |-> "none", opcode_offset |-> 1],   \* 0x20
    [name |-> "LXI H", args |-> "d16", opcode_offset |-> 3],   \* 0x21
    [name |-> "SHLD", args |-> "a16", opcode_offset |-> 3],   \* 0x22
    [name |-> "INX H", args |-> "none", opcode_offset |-> 1],   \* 0x23
    [name |-> "INR H", args |-> "none", opcode_offset |-> 1],   \* 0x24
    [name |-> "DCR H", args |-> "none", opcode_offset |-> 1],   \* 0x25
    [name |-> "MVI H", args |-> "d8", opcode_offset |-> 2],   \* 0x26
    [name |-> "DAA", args |-> "none", opcode_offset |-> 1],   \* 0x27
    [name |-> "NOP*", args |-> "none", opcode_offset |-> 1],   \* 0x28
    [name |-> "DAD H", args |-> "none", opcode_offset |-> 1],   \* 0x29
    [name |-> "LHLD", args |-> "a16", opcode_offset |-> 3],   \* 0x2A
    [name |-> "DCX H", args |-> "none", opcode_offset |-> 1],   \* 0x2B
    [name |-> "INR L", args |-> "none", opcode_offset |-> 1],   \* 0x2C
    [name |-> "DCR L", args |-> "none", opcode_offset |-> 1],   \* 0x2D
    [name |-> "MVI L", args |-> "d8", opcode_offset |-> 2],   \* 0x2E
    [name |-> "CMA", args |-> "none", opcode_offset |-> 1],   \* 0x2F
    [name |-> "NOP*", args |-> "none", opcode_offset |-> 1],   \* 0x30
    [name |-> "LXI SP", args |-> "d16", opcode_offset |-> 3],   \* 0x31
    [name |-> "STA", args |-> "a16", opcode_offset |-> 3],   \* 0x32
    [name |-> "INX SP", args |-> "none", opcode_offset |-> 1],   \* 0x33
    [name |-> "INR M", args |-> "none", opcode_offset |-> 1],   \* 0x34
    [name |-> "DCR M", args |-> "none", opcode_offset |-> 1],   \* 0x35
    [name |-> "MVI M", args |-> "d8", opcode_offset |-> 2],   \* 0x36
    [name |-> "STC", args |-> "none", opcode_offset |-> 1],   \* 0x37
    [name |-> "NOP*", args |-> "none", opcode_offset |-> 1],   \* 0x38
    [name |-> "DAD SP", args |-> "none", opcode_offset |-> 1],   \* 0x39
    [name |-> "LDA", args |-> "a16", opcode_offset |-> 3],   \* 0x3A
    [name |-> "DCX SP", args |-> "none", opcode_offset |-> 1],   \* 0x3B
    [name |-> "INR A", args |-> "none", opcode_offset |-> 1],   \* 0x3C
    [name |-> "DCR A", args |-> "none", opcode_offset |-> 1],   \* 0x3D
    [name |-> "MVI A", args |-> "d8", opcode_offset |-> 2],   \* 0x3E
    [name |-> "CMC", args |-> "none", opcode_offset |-> 1],   \* 0x3F
    [name |-> "MOV B,B", args |-> "none", opcode_offset |-> 1],   \* 0x40
    [name |-> "MOV B,C", args |-> "none", opcode_offset |-> 1],   \* 0x41
    [name |-> "MOV B,D", args |-> "none", opcode_offset |-> 1],   \* 0x42
    [name |-> "MOV B,E", args |-> "none", opcode_offset |-> 1],   \* 0x43
    [name |-> "MOV B,H", args |-> "none", opcode_offset |-> 1],   \* 0x44
    [name |-> "MOV B,L", args |-> "none", opcode_offset |-> 1],   \* 0x45
    [name |-> "MOV B,M", args |-> "none", opcode_offset |-> 1],   \* 0x46
    [name |-> "MOV B,A", args |-> "none", opcode_offset |-> 1],   \* 0x47
    [name |-> "MOV C,B", args |-> "none", opcode_offset |-> 1],   \* 0x48
    [name |-> "MOV C,C", args |-> "none", opcode_offset |-> 1],   \* 0x49
    [name |-> "MOV C,D", args |-> "none", opcode_offset |-> 1],   \* 0x4A
    [name |-> "MOV C,E", args |-> "none", opcode_offset |-> 1],   \* 0x4B
    [name |-> "MOV C,H", args |-> "none", opcode_offset |-> 1],   \* 0x4C
    [name |-> "MOV C,L", args |-> "none", opcode_offset |-> 1],   \* 0x4D
    [name |-> "MOV C,M", args |-> "none", opcode_offset |-> 1],   \* 0x4E
    [name |-> "MOV C,A", args |-> "none", opcode_offset |-> 1],   \* 0x4F
    [name |-> "MOV D,B", args |-> "none", opcode_offset |-> 1],   \* 0x50
    [name |-> "MOV D,C", args |-> "none", opcode_offset |-> 1],   \* 0x51
    [name |-> "MOV D,D", args |-> "none", opcode_offset |-> 1],   \* 0x52
    [name |-> "MOV D,E", args |-> "none", opcode_offset |-> 1],   \* 0x53
    [name |-> "MOV D,H", args |-> "none", opcode_offset |-> 1],   \* 0x54
    [name |-> "MOV D,L", args |-> "none", opcode_offset |-> 1],   \* 0x55
    [name |-> "MOV D,M", args |-> "none", opcode_offset |-> 1],   \* 0x56
    [name |-> "MOV D,A", args |-> "none", opcode_offset |-> 1],   \* 0x57
    [name |-> "MOV E,B", args |-> "none", opcode_offset |-> 1],   \* 0x58
    [name |-> "MOV E,C", args |-> "none", opcode_offset |-> 1],   \* 0x59
    [name |-> "MOV E,D", args |-> "none", opcode_offset |-> 1],   \* 0x5A
    [name |-> "MOV E,E", args |-> "none", opcode_offset |-> 1],   \* 0x5B
    [name |-> "MOV E,H", args |-> "none", opcode_offset |-> 1],   \* 0x5C
    [name |-> "MOV E,L", args |-> "none", opcode_offset |-> 1],   \* 0x5D
    [name |-> "MOV E,M", args |-> "none", opcode_offset |-> 1],   \* 0x5E
    [name |-> "MOV E,A", args |-> "none", opcode_offset |-> 1],   \* 0x5F
    [name |-> "MOV H,B", args |-> "none", opcode_offset |-> 1],   \* 0x60
    [name |-> "MOV H,C", args |-> "none", opcode_offset |-> 1],   \* 0x61
    [name |-> "MOV H,D", args |-> "none", opcode_offset |-> 1],   \* 0x62
    [name |-> "MOV H,E", args |-> "none", opcode_offset |-> 1],   \* 0x63
    [name |-> "MOV H,H", args |-> "none", opcode_offset |-> 1],   \* 0x64
    [name |-> "MOV H,L", args |-> "none", opcode_offset |-> 1],   \* 0x65
    [name |-> "MOV H,M", args |-> "none", opcode_offset |-> 1],   \* 0x66
    [name |-> "MOV H,A", args |-> "none", opcode_offset |-> 1],   \* 0x67
    [name |-> "MOV L,B", args |-> "none", opcode_offset |-> 1],   \* 0x68
    [name |-> "MOV L,C", args |-> "none", opcode_offset |-> 1],   \* 0x69
    [name |-> "MOV L,D", args |-> "none", opcode_offset |-> 1],   \* 0x6A
    [name |-> "MOV L,E", args |-> "none", opcode_offset |-> 1],   \* 0x6B
    [name |-> "MOV L,H", args |-> "none", opcode_offset |-> 1],   \* 0x6C
    [name |-> "MOV L,L", args |-> "none", opcode_offset |-> 1],   \* 0x6D
    [name |-> "MOV L,M", args |-> "none", opcode_offset |-> 1],   \* 0x6E
    [name |-> "MOV L,A", args |-> "none", opcode_offset |-> 1],   \* 0x6F
    [name |-> "MOV M,B", args |-> "none", opcode_offset |-> 1],   \* 0x70
    [name |-> "MOV M,C", args |-> "none", opcode_offset |-> 1],   \* 0x71
    [name |-> "MOV M,D", args |-> "none", opcode_offset |-> 1],   \* 0x72
    [name |-> "MOV M,E", args |-> "none", opcode_offset |-> 1],   \* 0x73
    [name |-> "MOV M,H", args |-> "none", opcode_offset |-> 1],   \* 0x74
    [name |-> "MOV M,L", args |-> "none", opcode_offset |-> 1],   \* 0x75
    [name |-> "HLT", args |-> "none", opcode_offset |-> 1],   \* 0x76
    [name |-> "MOV M,A", args |-> "none", opcode_offset |-> 1],   \* 0x77
    [name |-> "MOV A,B", args |-> "none", opcode_offset |-> 1],   \* 0x78
    [name |-> "MOV A,C", args |-> "none", opcode_offset |-> 1],   \* 0x79
    [name |-> "MOV A,D", args |-> "none", opcode_offset |-> 1],   \* 0x7A
    [name |-> "MOV A,E", args |-> "none", opcode_offset |-> 1],   \* 0x7B
    [name |-> "MOV A,H", args |-> "none", opcode_offset |-> 1],   \* 0x7C
    [name |-> "MOV A,L", args |-> "none", opcode_offset |-> 1],   \* 0x7D
    [name |-> "MOV A,M", args |-> "none", opcode_offset |-> 1],   \* 0x7E
    [name |-> "MOV A,A", args |-> "none", opcode_offset |-> 1],   \* 0x7F
    [name |-> "ADD B", args |-> "none", opcode_offset |-> 1],   \* 0x80
    [name |-> "ADD C", args |-> "none", opcode_offset |-> 1],   \* 0x81
    [name |-> "ADD D", args |-> "none", opcode_offset |-> 1],   \* 0x82
    [name |-> "ADD E", args |-> "none", opcode_offset |-> 1],   \* 0x83
    [name |-> "ADD H", args |-> "none", opcode_offset |-> 1],   \* 0x84
    [name |-> "ADD L", args |-> "none", opcode_offset |-> 1],   \* 0x85
    [name |-> "ADD M", args |-> "none", opcode_offset |-> 1],   \* 0x86
    [name |-> "ADD A", args |-> "none", opcode_offset |-> 1],   \* 0x87
    [name |-> "ADC B", args |-> "none", opcode_offset |-> 1],   \* 0x88
    [name |-> "ADC C", args |-> "none", opcode_offset |-> 1],   \* 0x89
    [name |-> "ADC D", args |-> "none", opcode_offset |-> 1],   \* 0x8A
    [name |-> "ADC E", args |-> "none", opcode_offset |-> 1],   \* 0x8B
    [name |-> "ADC H", args |-> "none", opcode_offset |-> 1],   \* 0x8C
    [name |-> "ADC L", args |-> "none", opcode_offset |-> 1],   \* 0x8D
    [name |-> "ADC M", args |-> "none", opcode_offset |-> 1],   \* 0x8E
    [name |-> "ADC A", args |-> "none", opcode_offset |-> 1],   \* 0x8F
    [name |-> "SUB B", args |-> "none", opcode_offset |-> 1],   \* 0x90
    [name |-> "SUB C", args |-> "none", opcode_offset |-> 1],   \* 0x91
    [name |-> "SUB D", args |-> "none", opcode_offset |-> 1],   \* 0x92
    [name |-> "SUB E", args |-> "none", opcode_offset |-> 1],   \* 0x93
    [name |-> "SUB H", args |-> "none", opcode_offset |-> 1],   \* 0x94
    [name |-> "SUB L", args |-> "none", opcode_offset |-> 1],   \* 0x95
    [name |-> "SUB M", args |-> "none", opcode_offset |-> 1],   \* 0x96
    [name |-> "SUB A", args |-> "none", opcode_offset |-> 1],   \* 0x97
    [name |-> "SBB B", args |-> "none", opcode_offset |-> 1],   \* 0x98
    [name |-> "SBB C", args |-> "none", opcode_offset |-> 1],   \* 0x99
    [name |-> "SBB D", args |-> "none", opcode_offset |-> 1],   \* 0x9A
    [name |-> "SBB E", args |-> "none", opcode_offset |-> 1],   \* 0x9B
    [name |-> "SBB H", args |-> "none", opcode_offset |-> 1],   \* 0x9C
    [name |-> "SBB L", args |-> "none", opcode_offset |-> 1],   \* 0x9D
    [name |-> "SBB M", args |-> "none", opcode_offset |-> 1],   \* 0x9E
    [name |-> "SBB A", args |-> "none", opcode_offset |-> 1],   \* 0x9F
    [name |-> "ANA B", args |-> "none", opcode_offset |-> 1],   \* 0xA0
    [name |-> "ANA C", args |-> "none", opcode_offset |-> 1],   \* 0xA1
    [name |-> "ANA D", args |-> "none", opcode_offset |-> 1],   \* 0xA2
    [name |-> "ANA E", args |-> "none", opcode_offset |-> 1],   \* 0xA3
    [name |-> "ANA H", args |-> "none", opcode_offset |-> 1],   \* 0xA4
    [name |-> "ANA L", args |-> "none", opcode_offset |-> 1],   \* 0xA5
    [name |-> "ANA M", args |-> "none", opcode_offset |-> 1],   \* 0xA6
    [name |-> "ANA A", args |-> "none", opcode_offset |-> 1],   \* 0xA7
    [name |-> "XRA B", args |-> "none", opcode_offset |-> 1],   \* 0xA8
    [name |-> "XRA C", args |-> "none", opcode_offset |-> 1],   \* 0xA9
    [name |-> "XRA D", args |-> "none", opcode_offset |-> 1],   \* 0xAA
    [name |-> "XRA E", args |-> "none", opcode_offset |-> 1],   \* 0xAB
    [name |-> "XRA H", args |-> "none", opcode_offset |-> 1],   \* 0xAC
    [name |-> "XRA L", args |-> "none", opcode_offset |-> 1],   \* 0xAD
    [name |-> "XRA M", args |-> "none", opcode_offset |-> 1],   \* 0xAE
    [name |-> "XRA A", args |-> "none", opcode_offset |-> 1],   \* 0xAF
    [name |-> "ORA B", args |-> "none", opcode_offset |-> 1],   \* 0xB0
    [name |-> "ORA C", args |-> "none", opcode_offset |-> 1],   \* 0xB1
    [name |-> "ORA D", args |-> "none", opcode_offset |-> 1],   \* 0xB2
    [name |-> "ORA E", args |-> "none", opcode_offset |-> 1],   \* 0xB3
    [name |-> "ORA H", args |-> "none", opcode_offset |-> 1],   \* 0xB4
    [name |-> "ORA L", args |-> "none", opcode_offset |-> 1],   \* 0xB5
    [name |-> "ORA M", args |-> "none", opcode_offset |-> 1],   \* 0xB6
    [name |-> "ORA A", args |-> "none", opcode_offset |-> 1],   \* 0xB7
    [name |-> "CMP B", args |-> "none", opcode_offset |-> 1],   \* 0xB8
    [name |-> "CMP C", args |-> "none", opcode_offset |-> 1],   \* 0xB9
    [name |-> "CMP D", args |-> "none", opcode_offset |-> 1],   \* 0xBA
    [name |-> "CMP E", args |-> "none", opcode_offset |-> 1],   \* 0xBB
    [name |-> "CMP H", args |-> "none", opcode_offset |-> 1],   \* 0xBC
    [name |-> "CMP L", args |-> "none", opcode_offset |-> 1],   \* 0xBD
    [name |-> "CMP M", args |-> "none", opcode_offset |-> 1],   \* 0xBE
    [name |-> "CMP A", args |-> "none", opcode_offset |-> 1],   \* 0xBF
    [name |-> "RNZ", args |-> "none", opcode_offset |-> 1],   \* 0xC0
    [name |-> "POP B", args |-> "none", opcode_offset |-> 1],   \* 0xC1
    [name |-> "JNZ", args |-> "a16", opcode_offset |-> 3],   \* 0xC2
    [name |-> "JMP", args |-> "a16", opcode_offset |-> 3],   \* 0xC3
    [name |-> "CNZ", args |-> "a16", opcode_offset |-> 3],   \* 0xC4
    [name |-> "PUSH B", args |-> "none", opcode_offset |-> 1],   \* 0xC5
    [name |-> "ADI", args |-> "d8", opcode_offset |-> 2],   \* 0xC6
    [name |-> "RST 0", args |-> "none", opcode_offset |-> 1],   \* 0xC7
    [name |-> "RZ", args |-> "none", opcode_offset |-> 1],   \* 0xC8
    [name |-> "RET", args |-> "none", opcode_offset |-> 1],   \* 0xC9
    [name |-> "JZ", args |-> "a16", opcode_offset |-> 3],   \* 0xCA
    [name |-> "JMP*", args |-> "a16", opcode_offset |-> 3],   \* 0xCB
    [name |-> "CZ", args |-> "a16", opcode_offset |-> 3],   \* 0xCC
    [name |-> "CALL", args |-> "a16", opcode_offset |-> 3],   \* 0xCD
    [name |-> "ACI", args |-> "d8", opcode_offset |-> 2],   \* 0xCE
    [name |-> "RST 1", args |-> "none", opcode_offset |-> 1],   \* 0xCF
    [name |-> "RNC", args |-> "none", opcode_offset |-> 1],   \* 0xD0
    [name |-> "POP D", args |-> "none", opcode_offset |-> 1],   \* 0xD1
    [name |-> "JNC", args |-> "a16", opcode_offset |-> 3],   \* 0xD2
    [name |-> "OUT", args |-> "d8", opcode_offset |-> 2],   \* 0xD3
    [name |-> "CNC", args |-> "a16", opcode_offset |-> 3],   \* 0xD4
    [name |-> "PUSH D", args |-> "none", opcode_offset |-> 1],   \* 0xD5
    [name |-> "SUI", args |-> "d8", opcode_offset |-> 2],   \* 0xD6
    [name |-> "RST 2", args |-> "none", opcode_offset |-> 1],   \* 0xD7
    [name |-> "RC", args |-> "none", opcode_offset |-> 1],   \* 0xD8
    [name |-> "RET*", args |-> "none", opcode_offset |-> 1],   \* 0xD9
    [name |-> "JC", args |-> "a16", opcode_offset |-> 3],   \* 0xDA
    [name |-> "IN", args |-> "d8", opcode_offset |-> 2],   \* 0xDB
    [name |-> "CC", args |-> "a16", opcode_offset |-> 3],   \* 0xDC
    [name |-> "CALL*", args |-> "a16", opcode_offset |-> 3],   \* 0xDD
    [name |-> "SBI", args |-> "d8", opcode_offset |-> 2],   \* 0xDE
    [name |-> "RST 3", args |-> "none", opcode_offset |-> 1],   \* 0xDF
    [name |-> "RPO", args |-> "none", opcode_offset |-> 1],   \* 0xE0
    [name |-> "POP H", args |-> "none", opcode_offset |-> 1],   \* 0xE1
    [name |-> "JPO", args |-> "a16", opcode_offset |-> 3],   \* 0xE2
    [name |-> "XTHL", args |-> "none", opcode_offset |-> 1],   \* 0xE3
    [name |-> "CPO", args |-> "a16", opcode_offset |-> 3],   \* 0xE4
    [name |-> "PUSH H", args |-> "none", opcode_offset |-> 1],   \* 0xE5
    [name |-> "ANI", args |-> "d8", opcode_offset |-> 2],   \* 0xE6
    [name |-> "RST 4", args |-> "none", opcode_offset |-> 1],   \* 0xE7
    [name |-> "RPE", args |-> "none", opcode_offset |-> 1],   \* 0xE8
    [name |-> "PCHL", args |-> "none", opcode_offset |-> 1],   \* 0xE9
    [name |-> "JPE", args |-> "a16", opcode_offset |-> 3],   \* 0xEA
    [name |-> "XCHG", args |-> "none", opcode_offset |-> 1],   \* 0xEB
    [name |-> "CPE", args |-> "a16", opcode_offset |-> 3],   \* 0xEC
    [name |-> "CALL*", args |-> "a16", opcode_offset |-> 3],   \* 0xED
    [name |-> "XRI", args |-> "d8", opcode_offset |-> 2],   \* 0xEE
    [name |-> "RST 5", args |-> "none", opcode_offset |-> 1],   \* 0xEF
    [name |-> "RP", args |-> "none", opcode_offset |-> 1],   \* 0xF0
    [name |-> "POP PSW", args |-> "none", opcode_offset |-> 1],   \* 0xF1
    [name |-> "JP", args |-> "a16", opcode_offset |-> 3],   \* 0xF2
    [name |-> "DI", args |-> "none", opcode_offset |-> 1],   \* 0xF3
    [name |-> "CP", args |-> "a16", opcode_offset |-> 3],   \* 0xF4
    [name |-> "PUSH PSW", args |-> "none", opcode_offset |-> 1],   \* 0xF5
    [name |-> "ORI", args |-> "d8", opcode_offset |-> 2],   \* 0xF6
    [name |-> "RST 6", args |-> "none", opcode_offset |-> 1],   \* 0xF7
    [name |-> "RM", args |-> "none", opcode_offset |-> 1],   \* 0xF8
    [name |-> "SPHL", args |-> "none", opcode_offset |-> 1],   \* 0xF9
    [name |-> "JM", args |-> "a16", opcode_offset |-> 3],   \* 0xFA
    [name |-> "EI", args |-> "none", opcode_offset |-> 1],   \* 0xFB
    [name |-> "CM", args |-> "a16", opcode_offset |-> 3],   \* 0xFC
    [name |-> "CALL*", args |-> "a16", opcode_offset |-> 3],   \* 0xFD
    [name |-> "CPI", args |-> "d8", opcode_offset |-> 2],   \* 0xFE
    [name |-> "RST 7", args |-> "none", opcode_offset |-> 1]   \* 0xFF
>>

\* what match_opcode leaves when an index is past the end of bytes: the panic
\* in place of the offset, nothing printed
OutOfImage == [line |-> [name |-> "", lit |-> FALSE, digits |-> <<>>], opcode_offset |-> NoMem]

\* match_opcode: the line printed and the offset returned
\* (pc counts from 0, bytes[k] of the code is bytes[k + 1] here)
match_opcode(bytes, pc) ==
    IF pc >= Len(bytes) THEN OutOfImage
    ELSE LET arm == OpcodeTable[bytes[pc + 1] + 1] IN
         CASE arm.args = "none" ->
                [line |-> [name |-> arm.name, lit |-> FALSE, digits |-> <<>>],
                 opcode_offset |-> arm.opcode_offset]
           [] arm.args = "d8" ->
                IF pc + 1 >= Len(bytes) THEN OutOfImage
                ELSE [line |-> [name |-> arm.name, lit |-> TRUE,
                                digits |-> Hex2(bytes[pc + 2])],
                      opcode_offset |-> arm.opcode_offset]
           [] OTHER ->
                IF pc + 2 >= Len(bytes) THEN OutOfImage
                ELSE [line |-> [name |-> arm.name, lit |-> arm.args = "d16",
                                digits |-> Hex2(bytes[pc + 3]) \o Hex2(bytes[pc + 2])],
                      opcode_offset |-> arm.opcode_offset]

MaxImage == 3        \* images of every length up to MaxImage over ImageBytes

ImageBytes == {0, 6, 195, 52, 18}

\* the input files of the disassembler
DisImages ==
    UNION { [1..n -> ImageBytes] : n \in 0..MaxImage }
    \cup { <<op, 5, 0>> : op \in 0..255 }
    \cup { <<195, 52, 18, 0>> }

InitDis ==
    /\ cpu = new
    /\ \E image \in DisImages : rom = File(image, Len(image), 0)
    /\ readable = TRUE
    /\ driver = "disassemble"
    /\ phase = "start"
    /\ overflow_checks \in BOOLEAN
    /\ dis = DisIdle

\* disassemble: read_file(input_file)?, i = 0, len = byte_vec.len()
DisReadFile ==
    /\ driver = "disassemble"
    /\ phase = "start"
    /\ readable
    /\ dis' = [byte_vec |-> RomBytes(rom), i |-> 0, out |-> <<>>]
    /\ phase' = "loop"
    /\ UNCHANGED <<cpu, rom, readable, driver, overflow_checks>>

\* disassemble: one iteration of the loop: print the address, match_opcode,
\* i += opcode_offset, break when i == len; an index past the end panics
\* after the address was printed
DisStep ==
    /\ driver = "disassemble"
    /\ phase = "loop"
    /\ LET m == match_opcode(dis.byte_vec, dis.i) IN
         IF m.opcode_offset < 0
         THEN /\ dis' = [dis EXCEPT !.out = Append(@, [addr |-> dis.i, name |-> "",
                                                        lit |-> FALSE, digits |-> <<>>])]
              /\ phase' = "panic"
         ELSE /\ dis' = [dis EXCEPT !.i = @ + m.opcode_offset,
                                    !.out = Append(@, [addr |-> dis.i, name |-> m.line.name,
                                                        lit |-> m.line.lit,
                                                        digits |-> m.line.digits])]
              /\ phase' = IF dis.i + m.opcode_offset = Len(dis.byte_vec) THEN "done" ELSE "loop"
    /\ UNCHANGED <<cpu, rom, readable, driver, overflow_checks>>

NextDis == DisReadFile \/ DisStep

SpecDis == InitDis /\ [][NextDis]_vars

TypeOK ==
    /\ cpu.registers.a \in 0..255
    /\ cpu.registers.b \in 0..255
    /\ cpu.registers.c \in 0..255
    /\ cpu.registers.d \in 0..255
    /\ cpu.registers.e \in 0..255
    /\ cpu.registers.h \in 0..255
    /\ cpu.registers.l \in 0..255
    /\ cpu.registers.sp \in 0..65535
    /\ cpu.registers.pc \in Nat
    /\ cpu.halted \in BOOLEAN

----------------------------------------------------------------------------
(* Properties *)

\* emulate is about to execute an instruction
Stepping ==
    /\ driver = "emulate"
    /\ phase \in {"loaded", "running"}
    /\ cpu.panic = "none"
    /\ ~cpu.halted

\* the memory is the full 64 KiB address space
FullMemory == Len(cpu.mem) = U16

\* C1: from every CPU state with a 64 KiB memory and PC in 0..0xFFFF, executing
\* one instruction (exec_opcode) completes without a runtime failure: no
\* panic, no out-of-range index, no trapped overflow, no unknown register.
C1_ExecNeverFails ==
    (Stepping /\ FullMemory /\ cpu.registers.pc < U16)
        => exec_opcode(cpu).panic = "none"

\* C2: after read_rom_to_mem has loaded a ROM of n <= 65536 bytes into a fresh
\* CPU, the memory holds exactly 65536 bytes: the ROM's bytes at 0..n-1 and
\* 0x00 at every address from n on.
C2_LoadFillsAddressSpace ==
    (phase = "loaded" /\ rom.size <= U16)
        => /\ Len(cpu.mem) = U16
           /\ \A i \in 0..(rom.size - 1) : mem_at(cpu, i) = RomBytes(rom)[i + 1]
           /\ \A i \in rom.size..(U16 - 1) : mem_at(cpu, i) = 0

\* C3: after every executed instruction the program counter is in 0..0xFFFF.
C3_PcInAddressSpace == cpu.registers.pc \in 0..(U16 - 1)

\* bit 5 and bit 3 clear, bit 1 set
ReservedBitsOk(byte) == Bit(byte, 5) = 0 /\ Bit(byte, 3) = 0 /\ Bit(byte, 1) = 1

\* a PUSH PSW step stores a flag byte with the reserved bits fixed at [SP]
PushPswStoresFixedBits ==
    (EmulateStep /\ mem_at(cpu, cpu.registers.pc) = 245 /\ cpu'.panic = "none")
        => /\ ReservedBitsOk(mem_at(cpu', cpu'.registers.sp))
           /\ mem_at(cpu', cpu'.registers.sp) = get_flags(cpu.registers.f)

\* C4: in every reachable state the encoded flag byte -- what get_flags
\* returns, the low byte of the PSW, and the byte a PUSH PSW stores -- has
\* bit 5 = 0, bit 3 = 0 and bit 1 = 1, also after POP PSW of an arbitrary byte.
C4_FlagByteReservedBits ==
    /\ [](/\ ReservedBitsOk(get_flags(cpu.registers.f))
          /\ ReservedBitsOk(get_psw(cpu) % U8))
    /\ [][PushPswStoresFixedBits]_vars

\* POP PSW has loaded the byte 0xFF and PUSH PSW has stored 0xD7 in its place
C4_Witness ==
    /\ rom.prog = RomPsw(255)
    /\ cpu.halted
    /\ cpu.registers.f = [sign |-> TRUE, zero |-> TRUE, aux_carry |-> TRUE,
                          parity |-> TRUE, carry |-> TRUE]
    /\ mem_at(cpu, 6) = 215
    /\ mem_at(cpu, 7) = 170

\* C5: given a readable ROM, the emulator binary's main loads it and executes
\* it until the CPU is halted before it exits successfully.
C5_MainRunsUntilHalted ==
    (driver = "main" /\ phase = "exit_ok") => cpu.halted

\* the values the ROM 31 00 20 CD 08 00 76 00 3E 07 C9 is said to halt with
C6_Final ==
    /\ cpu.halted
    /\ cpu.registers.a = 7
    /\ cpu.registers.sp = 8192
    /\ cpu.registers.pc = 7
    /\ mem_at(cpu, 8190) = 6
    /\ mem_at(cpu, 8191) = 0

\* C6: the run of the ROM 31 00 20 CD 08 00 76 00 3E 07 C9 does not fail, and
\* it halts with A = 0x07, SP = 0x2000, PC = 0x0007, mem[0x1FFE] = 0x06 and
\* mem[0x1FFF] = 0x00.
C6_CallReturnScenario ==
    (rom = File(RomCall, 11, 0) /\ driver = "emulate")
        => /\ cpu.panic = "none"
           /\ (cpu.halted => C6_Final)

C7_Start ==
    /\ rom = File(RomAdd, 6, 0)
    /\ readable
    /\ driver = "emulate"
    /\ phase = "start"

C7_Values ==
    /\ cpu.registers.a = 82
    /\ cpu.registers.b = 16
    /\ ~cpu.registers.f.zero
    /\ ~cpu.registers.f.sign
    /\ ~cpu.registers.f.carry
    /\ ~cpu.registers.f.aux_carry

\* C7 as stated: the ROM 3E 42 06 10 80 76 halts with A = 0x52, B = 0x10,
\* zero = 0, sign = 0, parity = 1, carry = 0, aux_carry = 0 and PC = 0x0005.
C7_AsStated ==
    (rom = File(RomAdd, 6, 0) /\ phase = "returned")
        => /\ C7_Values
           /\ cpu.registers.f.parity
           /\ cpu.registers.pc = 5

\* C7: the run of the ROM 3E 42 06 10 80 76 halts, with A = 0x52, B = 0x10,
\* zero = 0, sign = 0, parity = 0 (0x52 has three 1 bits), carry = 0,
\* aux_carry = 0 and PC = 0x0006 (the address after HLT).
C7_AddScenario ==
    C7_Start ~> (/\ phase = "returned"
                 /\ cpu.halted
                 /\ C7_Values
                 /\ ~cpu.registers.f.parity
                 /\ cpu.registers.pc = 6)

\* the ADD B of the scenario has run: A = 0x42 + 0x10
C7_Witness ==
    /\ rom = File(RomAdd, 6, 0)
    /\ phase = "returned"
    /\ cpu.halted
    /\ cpu.registers.a = 82
    /\ cpu.registers.pc = 6

PushOp(rp) == CASE rp = "BC" -> 197 [] rp = "DE" -> 213 [] rp = "HL" -> 229 [] rp = "PSW" -> 245
PopOp(rp) == CASE rp = "BC" -> 193 [] rp = "DE" -> 209 [] rp = "HL" -> 225 [] rp = "PSW" -> 241

PairValue(c, rp) == IF rp = "PSW" THEN get_psw(c) ELSE get_reg_pair(c, rp)

\* PUSH rp; POP rp are the next two instructions
AtPushPop(rp) ==
    /\ Stepping
    /\ FullMemory
    /\ mem_at(cpu, cpu.registers.pc) = PushOp(rp)
    /\ mem_at(cpu, cpu.registers.pc + 1) = PopOp(rp)

\* C8: for every rp in BC, DE, HL, PSW, every value of the pair and every SP,
\* PUSH rp followed by POP rp completes and leaves the pair (for PSW: A and
\* the five flags) and SP as they were.
C8_PushPopRestores ==
    \A rp \in {"BC", "DE", "HL", "PSW"} :
        AtPushPop(rp) =>
            LET c1 == exec_opcode(cpu)
                c2 == exec_opcode(c1)
            IN /\ c1.panic = "none"
               /\ c2.panic = "none"
               /\ PairValue(c2, rp) = PairValue(cpu, rp)
               /\ c2.registers.f = cpu.registers.f
               /\ c2.registers.sp = cpu.registers.sp

PushOps == {197, 213, 229, 245}
PopOps == {193, 209, 225, 241}
RstOps == {199, 207, 215, 223, 231, 239, 247, 255}

\* the pair a PUSH or POP opcode names
PairOfOp(op) ==
    CASE op \in {197, 193} -> "BC" [] op \in {213, 209} -> "DE"
      [] op \in {229, 225} -> "HL" [] op \in {245, 241} -> "PSW"

\* the change of SP: PUSH, CALL, RST -2; POP, RET +2; XTHL 0
SpDelta(op) ==
    IF op \in PushOps \cup RstOps \cup {205} THEN 0 - 2
    ELSE IF op \in PopOps \cup {201} THEN 2
    ELSE 0

\* the 16-bit word whose low byte is at addr and high byte at (addr + 1) mod 2^16
WordAt(c, addr) == mem_at(c, (addr + 1) % U16) * 256 + mem_at(c, addr)

\* C9: with any SP, also 0x0000, 0x0001 and 0xFFFF, each of PUSH, POP, CALL,
\* RET, RST and XTHL completes, SP changes by -2, +2 or 0 modulo 2^16, and the
\* high byte of the word is accessed at (SP + 1) mod 2^16.
C9_StackWraps ==
    LET op == mem_at(cpu, cpu.registers.pc)
        sp == cpu.registers.sp
        c1 == exec_opcode(cpu)
        sp1 == c1.registers.sp
    IN (Stepping /\ FullMemory /\ op \in PushOps \cup PopOps \cup RstOps \cup {205, 201, 227})
        => /\ c1.panic = "none"
           /\ sp1 = (sp + SpDelta(op)) % U16
           /\ op \in PushOps => WordAt(c1, sp1) = PairValue(cpu, PairOfOp(op))
           /\ op \in PopOps \ {241} => PairValue(c1, PairOfOp(op)) = WordAt(cpu, sp)
           /\ op = 241 => c1.registers.a = mem_at(cpu, (sp + 1) % U16)
           /\ op = 227 => /\ get_reg_pair(c1, "HL") = WordAt(cpu, sp)
                          /\ WordAt(c1, sp) = get_reg_pair(cpu, "HL")

AddOps == (128..143) \cup {198, 206}

\* the number of 1 bits is even
EvenOnes(v) ==
    (Bit(v, 0) + Bit(v, 1) + Bit(v, 2) + Bit(v, 3)
      + Bit(v, 4) + Bit(v, 5) + Bit(v, 6) + Bit(v, 7)) % 2 = 0

\* the operand of an add instruction: d8, or the source its low three bits name
AddOperand(c, op) ==
    IF op \in {198, 206} THEN mem_at(c, c.registers.pc + 1)
    ELSE CASE op % 8 = 0 -> c.registers.b [] op % 8 = 1 -> c.registers.c
           [] op % 8 = 2 -> c.registers.d [] op % 8 = 3 -> c.registers.e
           [] op % 8 = 4 -> c.registers.h [] op % 8 = 5 -> c.registers.l
           [] op % 8 = 6 -> mem_at(c, c.registers.h * 256 + c.registers.l)
           [] op % 8 = 7 -> c.registers.a

\* the sum and the flags an add instruction must leave, from state c to c1
AddExact(c, c1) ==
    LET op == mem_at(c, c.registers.pc)
        x == c.registers.a
        y == AddOperand(c, op)
        k == IF op \in (136..143) \cup {206} THEN BoolU8(c.registers.f.carry) ELSE 0
        r == (x + y + k) % 256
        f == c1.registers.f
    IN /\ c1.panic = "none"
       /\ c1.registers.a = r
       /\ f.carry = (x + y + k > 255)
       /\ f.aux_carry = ((x % 16) + (y % 16) + k > 15)
       /\ f.zero = (r = 0)
       /\ f.sign = (r >= 128)
       /\ f.parity = EvenOnes(r)

\* one step of ADD/ADI (k = 0) or ADC/ACI (k = carry in) gives the 8080's sum
AddStepIsExact ==
    (EmulateStep /\ mem_at(cpu, cpu.registers.pc) \in AddOps) => AddExact(cpu, cpu')

\* the run of MVI A,0; MVI B,0; NOP; ADD B is about to execute the ADD
AddProbe == cpu.mem = <<62, 0, 6, 0, 0, 128, 118>> /\ cpu.registers.pc = 5

\* ADD B, ADC B, ADI and ACI are exact on every x, y in 0..255 and carry in
AddExactOnAllOperands ==
    \A case \in {n \in AddCases : n.all}, x \in 0..255, y \in 0..255, k \in BOOLEAN :
        AddExact(AfterPrelude(x, case, y, k), exec_opcode(AfterPrelude(x, case, y, k)))

\* C10: for all x, y in 0..255 and carry in, ADD/ADI (k = 0) and ADC/ACI
\* (k = carry) leave A = (x + y + k) mod 256, carry iff x + y + k > 255,
\* aux_carry iff (x & 0xF) + (y & 0xF) + k > 0xF, zero iff the result is 0,
\* sign = bit 7 of the result, parity iff the result has an even number of 1s.
C10_AddFamily ==
    /\ [][AddStepIsExact]_vars
    /\ [](AddProbe => AddExactOnAllOperands)

\* ADC B has added 0xFF + 0xFF + 1: A = 0xFF with carry and auxiliary carry
C10_Witness ==
    /\ cpu.mem = <<62, 255, 6, 255, 55, 136, 118>>
    /\ cpu.registers.pc = 6
    /\ cpu.registers.a = 255
    /\ cpu.registers.f.carry
    /\ cpu.registers.f.aux_carry
    /\ cpu.registers.f.sign
    /\ cpu.registers.f.parity
    /\ ~cpu.registers.f.zero

CmpOps == (184..191) \cup {254}

\* c with the CMP r or CPI at PC replaced by SUB r (0x90 + n) or SUI (0xD6)
SubTwin(c) == mem_set(c, c.registers.pc, mem_at(c, c.registers.pc) - 40)

\* from c, the compare leaves c1: A as it was, the flags SUB leaves
CmpIsSub(c, c1) ==
    /\ c1.panic = "none"
    /\ c1.registers.a = c.registers.a
    /\ exec_opcode(SubTwin(c)).panic = "none"
    /\ c1.registers.f = exec_opcode(SubTwin(c)).registers.f

CmpStepIsSub ==
    (EmulateStep /\ mem_at(cpu, cpu.registers.pc) \in CmpOps) => CmpIsSub(cpu, cpu')

\* the run of MVI A,0; MVI B,0; NOP; CMP B is about to execute the CMP
CmpProbe == cpu.mem = <<62, 0, 6, 0, 0, 184, 118>> /\ cpu.registers.pc = 5

CmpIsSubOnAllOperands ==
    \A case \in CmpCases, x \in 0..255, y \in 0..255, k \in BOOLEAN :
        CmpIsSub(AfterPrelude(x, case, y, k), exec_opcode(AfterPrelude(x, case, y, k)))

\* C11: for every A and every operand, CMP r/M and CPI leave A unchanged and
\* set sign, zero, aux_carry, parity and carry to exactly the values SUB
\* (SUI) sets for the same A and operand.
C11_CmpFlagsAsSub ==
    /\ [][CmpStepIsSub]_vars
    /\ [](CmpProbe => CmpIsSubOnAllOperands)

\* CMP B has compared A = 0x00 with B = 0x01: A is still 0, borrow and sign set
C11_Witness ==
    /\ cpu.mem = <<62, 0, 6, 1, 0, 184, 118>>
    /\ cpu.registers.pc = 7
    /\ cpu.registers.a = 0
    /\ cpu.registers.f.carry
    /\ cpu.registers.f.sign
    /\ ~cpu.registers.f.zero

\* C12: RST n (n in 0..7) executed at address p completes, pushes the 16-bit
\* value p + 1 (SP decreases by 2) and sets PC to 8 * n whatever memory holds;
\* RST 7 jumps to 0x0038.
C12_RstPushesAndJumps ==
    LET op == mem_at(cpu, cpu.registers.pc)
        p == cpu.registers.pc
        c1 == exec_opcode(cpu)
    IN (Stepping /\ FullMemory /\ op \in RstOps)
        => /\ c1.panic = "none"
           /\ c1.registers.sp = (cpu.registers.sp - 2) % U16
           /\ WordAt(c1, c1.registers.sp) = (p + 1) % U16
           /\ c1.registers.pc = op - 199

\* the two-phase decimal adjust of A = a with carry cy and auxiliary carry ac
DaaResult(a, cy, ac) ==
    LET lo == a % 16
        low_adjust == lo > 9 \/ ac
        a1 == IF low_adjust THEN (a + 6) % 256 ELSE a
        ac1 == IF low_adjust THEN lo + 6 > 15 ELSE ac
        hi == a1 \div 16
        high_adjust == hi > 9 \/ cy
        a2 == IF high_adjust THEN (a1 + 96) % 256 ELSE a1
        cy1 == IF high_adjust /\ hi + 6 > 15 THEN TRUE ELSE cy
    IN [sign |-> a2 >= 128, zero |-> a2 = 0, aux_carry |-> ac1,
        parity |-> EvenOnes(a2), carry |-> cy1, a |-> a2]

\* a DAA step leaves the decimal adjust of A and the flags
DaaStepIsExact ==
    (EmulateStep /\ mem_at(cpu, cpu.registers.pc) = 39)
        => LET r == DaaResult(cpu.registers.a, cpu.registers.f.carry,
                              cpu.registers.f.aux_carry)
           IN /\ cpu'.panic = "none"
              /\ cpu'.registers.a = r.a
              /\ cpu'.registers.f = [sign |-> r.sign, zero |-> r.zero,
                                     aux_carry |-> r.aux_carry,
                                     parity |-> r.parity, carry |-> r.carry]

\* A = 0x9B with carry = 0, aux_carry = 0 has been adjusted
DaaOf9B == rom.prog = RomDaaPsw(2, 155) /\ cpu.halted

\* C13: for every A, carry and aux_carry, DAA adds 0x06 if (A & 0x0F) > 9 or
\* aux_carry, setting aux_carry to the low nibble's overflow, then adds 0x60
\* if (A >> 4) > 9 or carry, setting carry if the high nibble overflowed,
\* then sets S, Z, P from A; A = 0x9B with carry = 0, aux = 0 gives A = 0x01,
\* carry = 1, aux = 1, Z = 0, S = 0, P = 0.
C13_DaaTwoPhase ==
    /\ [][DaaStepIsExact]_vars
    /\ [](DaaOf9B => /\ cpu.registers.a = 1
                     /\ cpu.registers.f = [sign |-> FALSE, zero |-> FALSE,
                                           aux_carry |-> TRUE, parity |-> FALSE,
                                           carry |-> TRUE])

\* DAA has adjusted A = 0x9B to 0x01 with both carries set
C13_Witness ==
    /\ DaaOf9B
    /\ cpu.registers.pc = 6
    /\ cpu.registers.a = 1
    /\ cpu.registers.f.carry
    /\ cpu.registers.f.aux_carry

\* the 32 values of the five flags
FlagValues ==
    [sign : BOOLEAN, zero : BOOLEAN, aux_carry : BOOLEAN, parity : BOOLEAN,
     carry : BOOLEAN]

\* C14: for each of the 32 flag combinations, set_flags(get_flags()) restores
\* the same five flags, and so it does for the flags of every reachable state.
C14_FlagRoundTrip ==
    /\ \A f \in FlagValues : set_flags(new.registers.f, get_flags(f)) = f
    /\ set_flags(new.registers.f, get_flags(cpu.registers.f)) = cpu.registers.f

\* POP PSW has decoded 0x85 and PUSH PSW has encoded the flags as 0x87
C14_Witness ==
    /\ rom.prog = RomPsw(133)
    /\ cpu.halted
    /\ cpu.registers.f = [sign |-> TRUE, zero |-> FALSE, aux_carry |-> FALSE,
                          parity |-> TRUE, carry |-> TRUE]
    /\ mem_at(cpu, 6) = 135

\* check_parity and the parity set_artihmetic_flags stores agree with the count
ParityIsEvenOnes(v) ==
    /\ check_parity(v) = EvenOnes(v)
    /\ set_artihmetic_flags(cpu.registers.f, v).parity = EvenOnes(v)

\* C15: for every 8-bit value v, check_parity, and the parity flag
\* set_artihmetic_flags stores, is true exactly when v has an even number of
\* 1 bits.
C15_ParityEvenOnes == \A v \in 0..255 : ParityIsEvenOnes(v)

\* ADI has added 0xFF + 0x01: the result 0x00 has no 1 bit, parity is set
C15_Witness ==
    /\ rom.prog = RomAdi
    /\ cpu.halted
    /\ cpu.registers.a = 0
    /\ cpu.registers.f.parity
    /\ cpu.registers.f.zero

\* INX rp (0x03 + 16n) and DCX rp (0x0B + 16n) for rp = BC, DE, HL, SP
IncOps == {3, 19, 35, 51}
DecOps == {11, 27, 43, 59}

\* the pair an INX or DCX opcode names
Pair16(c, op) ==
    CASE op \div 16 = 0 -> get_reg_pair(c, "BC")
      [] op \div 16 = 1 -> get_reg_pair(c, "DE")
      [] op \div 16 = 2 -> get_reg_pair(c, "HL")
      [] op \div 16 = 3 -> c.registers.sp

\* C16: INX rp and DCX rp (rp in BC, DE, HL, SP) complete and wrap modulo 2^16
\* for every pair value -- INX at 0xFFFF gives 0x0000, DCX at 0x0000 gives
\* 0xFFFF -- and change no flag.
C16_IncDecWrap ==
    LET op == mem_at(cpu, cpu.registers.pc)
        c1 == exec_opcode(cpu)
    IN (Stepping /\ op \in IncOps \cup DecOps)
        => /\ c1.panic = "none"
           /\ Pair16(c1, op) = (Pair16(cpu, op) + (IF op \in IncOps THEN 1 ELSE 0 - 1)) % U16
           /\ c1.registers.f = cpu.registers.f

\* C17: IN d8 (0xDB) sets A to the value the input-port callback returns for
\* the port byte at PC + 1 -- 0 when no callback is provided, and the CPU has
\* none -- and advances PC by 2; OUT d8 (0xD3) hands (port, A) to the output
\* callback, leaves A unchanged and advances PC by 2.
C17_PortInstructions ==
    LET op == mem_at(cpu, cpu.registers.pc)
        c1 == exec_opcode(cpu)
    IN (Stepping /\ op \in {219, 211} /\ mem_at(cpu, cpu.registers.pc + 1) >= 0)
        => /\ c1.panic = "none"
           /\ c1.registers.pc = cpu.registers.pc + 2
           /\ op = 219 => c1.registers.a = 0
           /\ op = 211 => c1.registers.a = cpu.registers.a

\* a step sets halted exactly when it executes HLT (0x76), and HLT at p leaves PC = p + 1
HaltedOnlyByHlt ==
    EmulateStep =>
        LET op == mem_at(cpu, cpu.registers.pc)
        IN /\ cpu'.halted => op = 118
           /\ op = 118 => /\ cpu'.halted
                          /\ cpu'.panic = "none"
                          /\ cpu'.registers.pc = cpu.registers.pc + 1

\* C18: emulate returns only in a state where halted is true; halted is set
\* by opcode 0x76 (HLT) and by no other opcode; after HLT executed at address
\* p, PC = p + 1.
C18_HaltOnlyByHlt ==
    /\ [](phase = "returned" => cpu.halted)
    /\ [][EmulateReturn => cpu.halted /\ cpu'.halted]_vars
    /\ [][HaltedOnlyByHlt]_vars

\* emulate has returned after the HLT at address 3
C18_Witness ==
    /\ rom.prog = <<49, 10, 0, 118, 5, 0, 118, 118, 118, 118>>
    /\ phase = "returned"
    /\ cpu.halted
    /\ cpu.registers.pc = 4

\* C19: if halted is true, the single-step operation (exec_opcode) is a
\* no-op, here with a byte of memory at PC: it changes no register, flag, SP,
\* PC, memory byte or latch.
C19_StepWhenHaltedIsNoOp ==
    (cpu.halted /\ mem_at(cpu, cpu.registers.pc) >= 0) => exec_opcode(cpu) = cpu

\* C20: a ROM file of more than 65536 bytes is rejected (RomTooLarge): the
\* load does not succeed, and the CPU never holds or runs with a memory of
\* more than 65536 bytes.
C20_OversizeRomRejected ==
    /\ Len(cpu.mem) <= U16
    /\ rom.size > U16 => phase \notin {"loaded", "running", "returned"}

\* C21: for every byte image, cut-off operands and the empty image included,
\* the disassembler never indexes the image at or beyond its length (it does
\* not panic) and its cursor never passes the image length.
C21_DisassemblerNeverReadsPastEnd ==
    driver = "disassemble" => (phase # "panic" /\ dis.i <= Len(dis.byte_vec))

\* the listing of C3 34 12 00: 0x0000 JMP 0x1234, then 0x0003 NOP
JmpNopListing ==
    << [addr |-> 0, name |-> "JMP", lit |-> FALSE, digits |-> <<1, 2, 3, 4>>],
       [addr |-> 3, name |-> "NOP", lit |-> FALSE, digits |-> <<>>] >>

\* C22: disassembling C3 34 12 00 prints exactly the JMP 0x1234 line at offset
\* 0 and then the NOP line at offset 3, in this order, and stops with the
\* cursor at 4; it prints nothing else on the way and does not panic.
C22_JmpNopListing ==
    (driver = "disassemble" /\ rom.prog = <<195, 52, 18, 0>>) =>
        /\ phase \in {"start", "loop", "done"}
        /\ Len(dis.out) <= 2
        /\ dis.out = SubSeq(JmpNopListing, 1, Len(dis.out))
        /\ phase = "done" => (dis.out = JmpNopListing /\ dis.i = 4)
        /\ phase = "loop" => (dis.i < 4 /\ Len(dis.out) < 2)

C22_Witness ==
    /\ driver = "disassemble"
    /\ rom.prog = <<195, 52, 18, 0>>
    /\ phase = "done"
    /\ Len(dis.out) = 2

\* the undocumented opcodes and the documented opcode each stands for
AliasOps == {8, 16, 24, 32, 40, 48, 56, 203, 217, 221, 237, 253}

DocumentedOf(op) ==
    CASE op \in {8, 16, 24, 32, 40, 48, 56} -> 0
      [] op = 203 -> 195
      [] op = 217 -> 201
      [] op \in {221, 237, 253} -> 205

\* the state one instruction leaves when the byte fetched at PC is opcode
StepAs(c, opcode) ==
    LET r == dispatch(c, opcode)
    IN IF r.panic # "none" THEN [c EXCEPT !.panic = r.panic] ELSE r

\* C23: from every state, each undocumented opcode leaves exactly the state
\* its documented equivalent leaves: 08/10/18/20/28/30/38 as NOP, CB as JMP,
\* D9 as RET, DD/ED/FD as CALL; and a step with an undocumented opcode at PC
\* is that state.
C23_AliasesAsDocumented ==
    Stepping =>
        /\ \A op \in AliasOps : StepAs(cpu, op) = StepAs(cpu, DocumentedOf(op))
        /\ mem_at(cpu, cpu.registers.pc) \in AliasOps =>
              exec_opcode(cpu) = StepAs(cpu, DocumentedOf(mem_at(cpu, cpu.registers.pc)))

\* JMP* 0x0005 at address 3 (after LXI SP) has jumped to 0x0005
C23_Witness ==
    /\ driver = "emulate"
    /\ Len(cpu.mem) = 10
    /\ cpu.mem[4] = 203
    /\ cpu.registers.pc = 5
    /\ cpu.registers.sp = 10
    /\ cpu.panic = "none"

\* the condition ccc (bits 3..5 of a Jcc, Ccc or Rcc opcode) on the flags of c:
\* NZ, Z, NC, C, PO, PE, P, M
ConditionHolds(c, op) ==
    CASE (op \div 8) % 8 = 0 -> ~c.registers.f.zero
      [] (op \div 8) % 8 = 1 -> c.registers.f.zero
      [] (op \div 8) % 8 = 2 -> ~c.registers.f.carry
      [] (op \div 8) % 8 = 3 -> c.registers.f.carry
      [] (op \div 8) % 8 = 4 -> ~c.registers.f.parity
      [] (op \div 8) % 8 = 5 -> c.registers.f.parity
      [] (op \div 8) % 8 = 6 -> ~c.registers.f.sign
      [] OTHER -> c.registers.f.sign

CallOps == {205}
CccOps == {196, 204, 212, 220, 228, 236, 244, 252}

\* C24: a taken CALL or Ccc at address p with target t completes, decreases SP
\* by 2 (mod 2^16), leaves the return address p+3 on the stack (low byte at
\* mem[SP], high byte at mem[SP+1]) and sets PC = t.
C24_CallPushesReturnAddress ==
    LET op == mem_at(cpu, cpu.registers.pc)
        c1 == exec_opcode(cpu)
    IN (/\ Stepping
        /\ FullMemory
        /\ cpu.registers.pc + 2 < U16
        /\ op \in CallOps \/ (op \in CccOps /\ ConditionHolds(cpu, op)))
       => /\ c1.panic = "none"
          /\ c1.registers.sp = (cpu.registers.sp - 2) % U16
          /\ WordAt(c1, c1.registers.sp) = (cpu.registers.pc + 3) % U16
          /\ c1.registers.pc = WordAt(cpu, cpu.registers.pc + 1)

\* the length in bytes of the instruction with opcode op in the 8080 opcode table
InstructionLength(op) ==
    IF op \in {1, 17, 33, 49, 34, 42, 50, 58} THEN 3                  \* LXI, SHLD, LHLD, STA, LDA
    ELSE IF op >= 192 /\ op % 8 \in {2, 4} THEN 3                     \* Jcc, Ccc
    ELSE IF op \in {195, 203, 205, 221, 237, 253} THEN 3             \* JMP, CALL and their aliases
    ELSE IF op < 64 /\ op % 8 = 6 THEN 2                              \* MVI
    ELSE IF op >= 192 /\ op % 8 = 6 THEN 2                            \* ADI .. CPI
    ELSE IF op \in {211, 219} THEN 2                                  \* OUT, IN
    ELSE 1

\* the instruction with opcode op transfers control from c: a taken Jcc or
\* JMP, a taken Ccc or CALL, a taken Rcc or RET, RST, PCHL
TransfersControl(c, op) ==
    \/ op \in {195, 203, 205, 221, 237, 253, 201, 217, 233}
    \/ op >= 192 /\ op % 8 = 7
    \/ op >= 192 /\ op % 8 \in {0, 2, 4} /\ ConditionHolds(c, op)

\* C25: every instruction that completes without transferring control advances
\* PC by exactly the length of its opcode: 1, 2 or 3 (CMP r/M by 1, CPI by 2,
\* a not-taken Jcc or Ccc by 3, a not-taken Rcc by 1).
C25_PcAdvancesByLength ==
    LET op == mem_at(cpu, cpu.registers.pc)
        c1 == exec_opcode(cpu)
    IN (Stepping /\ op >= 0 /\ ~TransfersControl(cpu, op) /\ c1.panic = "none")
       => c1.registers.pc = cpu.registers.pc + InstructionLength(op)

\* C26: for every opcode, the offset match_opcode of the disassembler returns
\* equals the number of bytes by which the emulator advances PC when the
\* opcode executes without transferring control.
C26_DisassemblerLengthIsPcAdvance ==
    LET op == mem_at(cpu, cpu.registers.pc)
        c1 == exec_opcode(cpu)
    IN (Stepping /\ op >= 0 /\ ~TransfersControl(cpu, op) /\ c1.panic = "none")
       => c1.registers.pc - cpu.registers.pc = OpcodeTable[op + 1].opcode_offset

SubOps == (144..159) \cup {214, 222}

\* the operand of an arithmetic or logical instruction: d8, or the source its
\* low three bits name
AluOperand(c, op) ==
    IF op >= 192 THEN mem_at(c, c.registers.pc + 1) ELSE AddOperand(c, op)

\* the difference and the flags a subtract instruction must leave, from c to c1
SubExact(c, c1) ==
    LET op == mem_at(c, c.registers.pc)
        x == c.registers.a
        y == AluOperand(c, op)
        k == IF op \in (152..159) \cup {222} THEN BoolU8(c.registers.f.carry) ELSE 0
        r == (x - y - k) % 256
        f == c1.registers.f
    IN /\ c1.panic = "none"
       /\ c1.registers.a = r
       /\ f.carry = (y + k > x)
       /\ f.aux_carry = ((x % 16) - (y % 16) - k >= 0)
       /\ f.zero = (r = 0)
       /\ f.sign = (r >= 128)
       /\ f.parity = EvenOnes(r)

\* C27: for all x, y in 0..255, SUB/SUI (k = 0) and SBB/SBI (k = carry in)
\* complete and leave A = (x - y - k) mod 256, carry iff y + k > x (as
\* integers, so y = 0xFF with k = 1 always sets carry), aux_carry iff
\* (x & 0xF) - (y & 0xF) - k >= 0, and S, Z, P of the result.
C27_SubFamily ==
    (Stepping /\ mem_at(cpu, cpu.registers.pc) \in SubOps) => SubExact(cpu, exec_opcode(cpu))

AnaOps == (160..167) \cup {230}

\* the conjunction and the flags a logical AND must leave, from c to c1
AnaExact(c, c1) ==
    LET op == mem_at(c, c.registers.pc)
        x == c.registers.a
        y == AluOperand(c, op)
        r == BitAnd(x, y)
        f == c1.registers.f
    IN /\ c1.panic = "none"
       /\ c1.registers.a = r
       /\ ~f.carry
       /\ f.aux_carry = (Bit(x, 3) = 1 \/ Bit(y, 3) = 1)
       /\ f.zero = (r = 0)
       /\ f.sign = (r >= 128)
       /\ f.parity = EvenOnes(r)

\* C28: for every A and operand, ANA r/M and ANI leave A = A & operand, carry
\* clear, S, Z, P of the result, and aux_carry set exactly when bit 3 of A
\* before or of the operand is set (stated here for every AND but ANA H,
\* opcode 0xA4, which C29 is about).
C28_AnaFamily ==
    (Stepping /\ mem_at(cpu, cpu.registers.pc) \in AnaOps \ {164})
        => AnaExact(cpu, exec_opcode(cpu))

\* C29: opcode 0xA4 (ANA H) completes and ANDs the accumulator with register
\* H: A = A_before & H, carry clear, S, Z, P of the result, PC advanced by 1.
C29_AnaH ==
    LET c1 == exec_opcode(cpu)
        r == BitAnd(cpu.registers.a, cpu.registers.h)
    IN (Stepping /\ mem_at(cpu, cpu.registers.pc) = 164)
       => /\ c1.panic = "none"
          /\ c1.registers.a = r
          /\ ~c1.registers.f.carry
          /\ c1.registers.f.zero = (r = 0)
          /\ c1.registers.f.sign = (r >= 128)
          /\ c1.registers.f.parity = EvenOnes(r)
          /\ c1.registers.pc = cpu.registers.pc + 1

DadOps == {9, 25, 41, 57}

\* the register pair DAD with opcode op adds to HL
DadOperand(c, op) ==
    CASE op = 9 -> c.registers.b * 256 + c.registers.c
      [] op = 25 -> c.registers.d * 256 + c.registers.e
      [] op = 41 -> c.registers.h * 256 + c.registers.l
      [] op = 57 -> c.registers.sp

\* C30: DAD rp for rp in {BC, DE, HL, SP} completes, sets HL to
\* (HL + rp) mod 2^16 and carry exactly when HL + rp > 0xFFFF, and leaves the
\* operand pair (SP for DAD SP), A and the other four flags unchanged.
C30_DadAddsToHL ==
    LET op == mem_at(cpu, cpu.registers.pc)
        c1 == exec_opcode(cpu)
        hl == cpu.registers.h * 256 + cpu.registers.l
        sum == hl + DadOperand(cpu, op)
    IN (Stepping /\ op \in DadOps)
       => /\ c1.panic = "none"
          /\ c1.registers.h * 256 + c1.registers.l = sum % U16
          /\ c1.registers.f = [cpu.registers.f EXCEPT !.carry = sum > 65535]
          /\ op # 41 => DadOperand(c1, op) = DadOperand(cpu, op)
          /\ c1.registers.a = cpu.registers.a

\* C31: PCHL (0xE9) completes and sets PC to exactly HL; SPHL (0xF9) completes
\* and sets SP to HL; neither changes H, L or any flag.
C31_PchlSphl ==
    LET op == mem_at(cpu, cpu.registers.pc)
        c1 == exec_opcode(cpu)
        hl == cpu.registers.h * 256 + cpu.registers.l
    IN (Stepping /\ op \in {233, 249})
       => /\ c1.panic = "none"
          /\ op = 233 => c1.registers.pc = hl
          /\ op = 249 => c1.registers.sp = hl
          /\ c1.registers.h = cpu.registers.h
          /\ c1.registers.l = cpu.registers.l
          /\ c1.registers.f = cpu.registers.f

\* the conditional return, jump and call opcodes, and for each the
\* unconditional instruction of its kind (RET, JMP, CALL)
RccOps == { 192 + 8 * cc : cc \in 0..7 }

JccOps == { 194 + 8 * cc : cc \in 0..7 }

UnconditionalOf(op) == IF op \in RccOps THEN 201 ELSE IF op \in JccOps THEN 195 ELSE 205

\* C32: a conditional Rcc, Jcc or Ccc whose predicate holds (NZ, Z, NC, C, PO,
\* PE, P, M on the zero, carry, parity and sign flags) does exactly what RET,
\* JMP or CALL does from the same state; when the predicate does not hold it
\* completes, PC advances by 3 (Jcc, Ccc) or 1 (Rcc), and SP and memory are
\* unchanged.
C32_ConditionalBranches ==
    LET op == mem_at(cpu, cpu.registers.pc)
        c1 == exec_opcode(cpu)
    IN (Stepping /\ op \in RccOps \cup JccOps \cup CccOps)
       => IF ConditionHolds(cpu, op)
          THEN c1 = StepAs(cpu, UnconditionalOf(op))
          ELSE /\ c1.panic = "none"
               /\ c1.registers.pc = cpu.registers.pc + (IF op \in RccOps THEN 1 ELSE 3)
               /\ c1.registers.sp = cpu.registers.sp
               /\ c1.mem = cpu.mem

\* JNZ 0x000C at address 4 was not taken with only the zero flag set: PC is 7
C32_Witness ==
    /\ rom.prog = <<49, 8, 0, 241, 194, 12, 0, 118, 66, 170, 12, 0, 118>>
    /\ phase = "running"
    /\ cpu.registers.pc = 7
    /\ cpu.registers.f.zero
    /\ cpu.registers.sp = 10
    /\ ~cpu.halted

\* the flags the dispatch table marks as affected by opcode op: all five for
\* the ALU instructions, DAA and POP PSW; all but carry for INR and DCR; only
\* carry for the rotates, DAD, STC and CMC; none for every other opcode
FlagNames == {"sign", "zero", "aux_carry", "parity", "carry"}

AffectedFlags(op) ==
    IF op < 64 /\ op % 8 \in {4, 5} THEN FlagNames \ {"carry"}           \* INR, DCR
    ELSE IF op \in {7, 15, 23, 31, 9, 25, 41, 57, 55, 63} THEN {"carry"}  \* rotates, DAD, STC, CMC
    ELSE IF op = 39 \/ op = 241 THEN FlagNames                            \* DAA, POP PSW
    ELSE IF op >= 128 /\ op < 192 THEN FlagNames                          \* ADD .. CMP
    ELSE IF op >= 192 /\ op % 8 = 6 THEN FlagNames                        \* ADI .. CPI
    ELSE {}

\* C33: for every opcode, the step leaves every flag the dispatch table marks
\* unchanged as it was: no flag for data movement, stack (except POP PSW),
\* branch, call, return, RST, IN/OUT, HLT, DI/EI, CMA, INX/DCX; at most carry
\* for RLC/RRC/RAL/RAR, DAD, STC, CMC; never carry for INR and DCR.
C33_UnmarkedFlagsUnchanged ==
    LET op == mem_at(cpu, cpu.registers.pc)
        c1 == exec_opcode(cpu)
    IN (Stepping /\ op >= 0)
       => \A flag \in FlagNames \ AffectedFlags(op) :
              c1.registers.f[flag] = cpu.registers.f[flag]

\* INR B at address 4 has run with only the carry flag set: B = 1, carry kept
C33_Witness ==
    /\ rom.prog = <<49, 8, 0, 241, 4, 12, 0, 118, 3, 170, 12, 0, 118>>
    /\ phase = "running"
    /\ cpu.registers.pc = 5
    /\ cpu.registers.b = 1
    /\ cpu.registers.f.carry
    /\ ~cpu.registers.f.zero

\* the little-endian word in the two operand bytes of the instruction at PC
OperandWord(c) == mem_at(c, c.registers.pc + 2) * 256 + mem_at(c, c.registers.pc + 1)

\* C34: a three-byte instruction whose operand bytes are in memory decodes
\* them little-endian, word = (mem[PC+2] << 8) | mem[PC+1]: LXI rp loads the
\* high register from mem[PC+2] and the low one from mem[PC+1] (LXI SP the
\* word), and a completed JMP or taken Jcc, CALL or taken Ccc, STA, LDA, SHLD
\* and LHLD use that word as their address.
C34_LittleEndianOperand ==
    LET op == mem_at(cpu, cpu.registers.pc)
        c1 == exec_opcode(cpu)
        hi == mem_at(cpu, cpu.registers.pc + 2)
        lo == mem_at(cpu, cpu.registers.pc + 1)
        word == OperandWord(cpu)
        taken == ConditionHolds(cpu, op)
    IN (Stepping /\ hi >= 0 /\ lo >= 0)
       => /\ op \in {1, 17, 33, 49} => c1.panic = "none"
          /\ op = 1 => c1.registers.b = hi /\ c1.registers.c = lo
          /\ op = 17 => c1.registers.d = hi /\ c1.registers.e = lo
          /\ op = 33 => c1.registers.h = hi /\ c1.registers.l = lo
          /\ op = 49 => c1.registers.sp = word
          /\ (op \in {195, 203} \/ (op \in JccOps /\ taken)) =>
                 c1.panic = "none" /\ c1.registers.pc = word
          /\ ((op \in {205, 221, 237, 253} \/ (op \in CccOps /\ taken)) /\ c1.panic = "none") =>
                 c1.registers.pc = word
          /\ (op = 50 /\ c1.panic = "none") => mem_at(c1, word) = cpu.registers.a
          /\ (op = 58 /\ c1.panic = "none") => c1.registers.a = mem_at(cpu, word)
          /\ (op = 34 /\ c1.panic = "none") => mem_at(c1, word) = cpu.registers.l
          /\ (op = 42 /\ c1.panic = "none") => c1.registers.l = mem_at(cpu, word)

\* C35: with the full 64 KiB of memory, SHLD a16 completes and stores L at
\* mem[a16] and H at mem[(a16+1) mod 2^16], and LHLD a16 completes and loads L
\* and H from the same two addresses, for every a16 including 0xFFFF, whose
\* second byte is at address 0x0000.
C35_ShldLhld ==
    LET op == mem_at(cpu, cpu.registers.pc)
        c1 == exec_opcode(cpu)
        a16 == OperandWord(cpu)
    IN (Stepping /\ FullMemory /\ cpu.registers.pc + 2 < U16 /\ op \in {34, 42})
       => /\ c1.panic = "none"
          /\ op = 34 => /\ mem_at(c1, a16) = cpu.registers.l
                        /\ mem_at(c1, (a16 + 1) % U16) = cpu.registers.h
          /\ op = 42 => /\ c1.registers.l = mem_at(cpu, a16)
                        /\ c1.registers.h = mem_at(cpu, (a16 + 1) % U16)

\* C36: loading is idempotent: once the ROM is loaded, calling
\* read_rom_to_mem again with the same ROM leaves the memory as it is, with
\* the ROM's first byte at address 0.
C36_LoadIdempotent ==
    LET twice == read_rom_to_mem(cpu, RomBytes(rom))
    IN phase = "loaded"
       => /\ twice.mem = cpu.mem
          /\ rom.size > 0 => mem_at(twice, 0) = RomBytes(rom)[1]

\* C37: executing instructions never changes the number of memory bytes: in
\* every state from the load on the memory has the length the loaded ROM
\* gave it, and so has the memory any next instruction leaves.
C37_MemoryLengthFixed ==
    phase \in {"loaded", "running", "returned"}
       => /\ Len(cpu.mem) = rom.size
          /\ Stepping => Len(exec_opcode(cpu).mem) = rom.size

\* STA 0x000C at address 4 has stored A = 0xAA in the last byte of the
\* 13-byte memory
C37_Witness ==
    /\ rom.prog = <<49, 8, 0, 241, 50, 12, 0, 118, 2, 170, 12, 0, 118>>
    /\ phase = "running"
    /\ cpu.registers.pc = 7
    /\ Len(cpu.mem) = 13
    /\ cpu.mem[13] = 170

\* the number of memory bytes the instruction with opcode op may write from
\* state c: one for MOV M,r, MVI M, INR M, DCR M, STAX, STA; two for SHLD,
\* XTHL, PUSH, RST, CALL and a taken Ccc; none for every other opcode
MayWrite(c, op) ==
    IF op \in (112..117) \cup {119, 54, 52, 53, 2, 18, 50} THEN 1
    ELSE IF op \in {34, 227} \cup PushOps \cup RstOps \cup {205, 221, 237, 253} THEN 2
    ELSE IF op \in CccOps /\ ConditionHolds(c, op) THEN 2
    ELSE 0

\* the addresses at which the memories of c and c1 differ
ChangedBytes(c, c1) == { i \in 1..Len(c.mem) : c1.mem[i] # c.mem[i] }

\* C38: a step changes at most one memory byte for MOV M,r, MVI M, INR M,
\* DCR M, STAX and STA, at most two for SHLD, XTHL, PUSH, a taken CALL or Ccc
\* and RST, and none for every other opcode (ALU, loads, jumps, returns, POP,
\* IN, OUT and the rest).
C38_MemoryWriters ==
    LET op == mem_at(cpu, cpu.registers.pc)
        c1 == exec_opcode(cpu)
    IN (Stepping /\ op >= 0)
       => /\ Len(c1.mem) = Len(cpu.mem)
          /\ Cardinality(ChangedBytes(cpu, c1)) <= MayWrite(cpu, op)

\* PUSH B at address 4 with BC = 0 has overwritten the two bytes 02 AA at
\* addresses 8 and 9
C38_Witness ==
    /\ rom.prog = <<49, 8, 0, 241, 197, 12, 0, 118, 2, 170, 12, 0, 118>>
    /\ phase = "running"
    /\ cpu.registers.pc = 5
    /\ cpu.registers.sp = 8
    /\ cpu.mem[9] = 0
    /\ cpu.mem[10] = 0

\* C39: the halted latch is monotone: from a halted state no step of the
\* program changes the processor at all (emulate executes nothing after the
\* HLT), and no opcode, were exec_opcode run on it, would leave halted false.
C39_HaltedLatch ==
    /\ [][cpu.halted => (cpu'.halted /\ cpu' = cpu)]_vars
    /\ [](cpu.halted => \A op \in 0..255 : StepAs(cpu, op).halted)

\* emulate has returned after the HLT at the address before PC
C39_Witness ==
    /\ cpu.halted
    /\ phase = "returned"
    /\ mem_at(cpu, cpu.registers.pc - 1) = 118
    /\ cpu.panic = "none"

\* C40: the interrupt-enable latch is false on construction; DI (0xF3)
\* completes and changes nothing but the latch, which it sets to false, and
\* PC, which it advances by 1; EI (0xFB) likewise, setting the latch to true;
\* every other opcode leaves the latch as it was.
C40_InterruptLatch ==
    LET op == mem_at(cpu, cpu.registers.pc)
        c1 == exec_opcode(cpu)
    IN /\ ~new.int
       /\ phase = "start" => ~cpu.int
       /\ (Stepping /\ op >= 0)
          => /\ op = 243 => c1 = [cpu EXCEPT !.int = FALSE, !.registers.pc = @ + 1]
             /\ op = 251 => c1 = [cpu EXCEPT !.int = TRUE, !.registers.pc = @ + 1]
             /\ op \notin {243, 251} => c1.int = cpu.int

\* DI at address 4 has cleared the latch that the EI at address 3 had set
C40_Witness ==
    /\ rom.prog = <<49, 10, 0, 251, 243, 5, 0, 118, 118, 118>>
    /\ phase = "running"
    /\ cpu.registers.pc = 5
    /\ ~cpu.int
    /\ cpu.registers.sp = 10
====
